---- MODULE Spec2Model ----
(***************************************************************************)
(* Panel construction of the FF3V factor model repository:                 *)
(*   create_database/crsp.py   CRSP security panel (excess return,         *)
(*                             momentum, size category, CCM links)         *)
(*   create_database/compustat.py  Compustat fundamentals                  *)
(*   create_database/_utils.py     dates, exchange and industry codes      *)
(*   create_database/q_factors.py, macro_predictors.py, cpi.py, _main.py   *)
(*                             downloads, write_to_sql and the run         *)
(*   src/fama_macbeth.py       FamaMacbeth (filters and panel assembly)    *)
(*                                                                         *)
(* Dates are month numbers.  A nullable column holds NaN (the empty tuple) *)
(* or a one-element tuple <<v>>; log(n/d) is held as the reduced fraction  *)
(* <<n, d>>.  Returns are whole numbers (1 = 100%), so that products of    *)
(* gross returns are exact.  Data frames are sequences of records.         *)
(***************************************************************************)
EXTENDS Integers, Sequences, FiniteSets, TLC

VARIABLES pc,         \* position inside CRSP.set_data / FamaMacbeth.prepare_data
          df,         \* CRSP.df
          factors,    \* monthly Fama-French table: month -> rf (NaN: no observation)
          thresholds, \* large_cap_threshold / small_cap_threshold of classify_for_size, x10
          links,      \* CCM linking table as fetched
          crsp,       \* table "crsp" of the sqlite database
          compustat,  \* table "compustat" of the sqlite database
          lag,        \* FamaMacbeth.compustat_month_lag
          characteristics,   \* local of prepare_data (line 50)
          data_fama_macbeth, \* local of prepare_data after the forward fill (line 59)
          data,       \* FamaMacbeth.data
          funda,        \* rows returned by the annual Compustat query, in fetch order
          compustat_df, \* Compustat.df
          msf,          \* rows returned by the monthly CRSP query, in fetch order
          dsf,          \* rows of the daily CRSP table, in fetch order
          factors_daily,\* daily Fama-French table: day -> rf (NaN: no observation)
          df_daily,     \* local df_daily of create_volatility_column
          call,         \* an entry point that takes a date pair, and its arguments
          outcome,      \* what the call left: the error raised or the dates kept
          drop_tail_percentile, \* FamaMacbeth.drop_tail_percentile, in hundredths
          desired_size, \* FamaMacbeth.desired_size
          tables,       \* the other tables of the sqlite database, by name
          frames,       \* the df attribute of every dataset object
          calls,        \* number of set_data / write_to_sql calls made so far
          https_context,\* ssl._create_default_https_context
          fetches,      \* position of every downloading component inside set_data
          batching      \* locals of get_daily_crsp_data while its loop runs

vars == <<pc, df, factors, thresholds, links, crsp, compustat, lag,
          characteristics, data_fama_macbeth, data,
          funda, compustat_df, msf, dsf, factors_daily, df_daily, call, outcome,
          drop_tail_percentile, desired_size, tables, frames, calls,
          https_context, fetches, batching>>

\* the filters of the FamaMacbeth object, the stored tables and dataset
\* objects, the HTTPS context and its users
filterVars == <<drop_tail_percentile, desired_size>>

storeVars == <<tables, frames, calls>>

httpsVars == <<https_context, fetches>>

otherVars == <<filterVars, storeVars, httpsVars, batching>>

\* state of the Compustat object, of the fetched CRSP data, of a date-pair call
compustatVars == <<funda, compustat_df>>

fetchVars == <<msf, dsf, factors_daily, df_daily>>

dateVars == <<call, outcome>>

\* state of the CRSP object and of the FamaMacbeth object
panelVars == <<df, factors, thresholds, links>>

assembleVars == <<crsp, compustat, lag, characteristics, data_fama_macbeth, data>>

-----------------------------------------------------------------------------
(* Nullable values and generic data-frame helpers                          *)

NaN == <<>>

IsNull(x) == x = NaN

NotNull(x) == x # NaN

\* x - y on nullable numbers (NaN propagates)
Sub(x, y) == IF IsNull(x) \/ IsNull(y) THEN NaN ELSE <<x[1] - y[1]>>

Range(s) == {s[i] : i \in DOMAIN s}

Min2(a, b) == IF a <= b THEN a ELSE b

RECURSIVE Concat(_)
\* pd.concat / flattening of a sequence of frames
Concat(ss) == IF ss = <<>> THEN <<>> ELSE Head(ss) \o Concat(Tail(ss))

\* row order of sort_values(by): by = <<"permno", "date">> or <<"date", "permno">>
RowLeq(a, b, by) ==
    \/ a[by[1]] < b[by[1]]
    \/ a[by[1]] = b[by[1]] /\ a[by[2]] <= b[by[2]]

\* the position of every row of s in the stable sort by the columns of by:
\* one more than the number of rows that come before it
SortedPositions(s, by) ==
    [i \in DOMAIN s |->
        Cardinality({j \in DOMAIN s :
                        IF RowLeq(s[i], s[j], by)
                        THEN RowLeq(s[j], s[i], by) /\ j < i
                        ELSE TRUE}) + 1]

\* DataFrame.sort_values(by): stable sort of the rows
SortValues(s, by) ==
    CHOOSE sorted \in {[k \in DOMAIN t |-> t[CHOOSE i \in DOMAIN t : position[i] = k]] :
                          t \in {s}, position \in {SortedPositions(s, by)}} : TRUE

RECURSIVE InsertInt(_, _)
InsertInt(s, x) ==
    IF s = <<>> THEN <<x>>
    ELSE IF s[Len(s)] <= x THEN Append(s, x)
    ELSE Append(InsertInt(SubSeq(s, 1, Len(s) - 1), x), s[Len(s)])

RECURSIVE SortInts(_)
\* ascending order of a sequence of numbers
SortInts(s) ==
    IF s = <<>> THEN <<>>
    ELSE InsertInt(SortInts(SubSeq(s, 1, Len(s) - 1)), s[Len(s)])

\* Series.quantile(q10 / 10), linear interpolation between the order statistics
\* at (n - 1) * q; the result is scaled by 10, and NaN on an empty series
Quantile10(vals, q10) ==
    IF vals = <<>> THEN NaN
    ELSE LET v == SortInts(vals)
             n == Len(v)
             lo == ((n - 1) * q10) \div 10
             f == ((n - 1) * q10) % 10
         IN  <<v[lo + 1] * (10 - f) + v[Min2(lo + 2, n)] * f>>

RECURSIVE Gcd(_, _)
Gcd(a, b) == IF b = 0 THEN a ELSE Gcd(b, a % b)

\* np.log(n / d) for n, d > 0, held as the fraction n/d in lowest terms
Log(n, d) == <<n \div Gcd(n, d), d \div Gcd(n, d)>>

RECURSIVE ProdGross(_)
\* np.prod(1 + past_returns.values) over a sequence of excess returns
ProdGross(s) == IF s = <<>> THEN 1 ELSE (1 + Head(s)) * ProdGross(Tail(s))

\* None: an attribute or argument that holds no value
None == [type |-> "NoneType"]

\* a Compustat object after __init__, no query issued
NoFundamentals == funda = <<>> /\ compustat_df = None

\* no CRSP data fetched
NoFetch == msf = <<>> /\ dsf = <<>> /\ factors_daily = <<>> /\ df_daily = <<>>

\* no date-pair call under way
NoCall == call = None /\ outcome = None

\* the dataset objects with a df attribute that write_to_sql stores, named by
\* their table
Writers == {"compustat", "crsp", "cpi", "q_factors", "macro_predictors"}

\* the components that download over HTTPS
Downloaders == {"q_factors", "macro_predictors"}

\* no FamaMacbeth filter, an empty database, fresh dataset objects, the
\* default HTTPS context, no batch loop
NoOther ==
    /\ drop_tail_percentile = None
    /\ desired_size = None
    /\ tables = [w \in Writers |-> None]
    /\ frames = [w \in Writers |-> None]
    /\ calls = 0
    /\ https_context = "create_default_context"
    /\ fetches = [c \in Downloaders |-> "idle"]
    /\ batching = None

-----------------------------------------------------------------------------
(* Date arguments: convert_to_datetime and the date-pair entry points.     *)
(* A datetime is <<year, month, day>>; a str is the sequence of its        *)
(* characters.                                                             *)

Digits == {"0", "1", "2", "3", "4", "5", "6", "7", "8", "9"}

DigitOf ==
    [c \in Digits |->
        CASE c = "0" -> 0 [] c = "1" -> 1 [] c = "2" -> 2 [] c = "3" -> 3
          [] c = "4" -> 4 [] c = "5" -> 5 [] c = "6" -> 6 [] c = "7" -> 7
          [] c = "8" -> 8 [] c = "9" -> 9]

RECURSIVE ToNumber(_)
\* int() of a sequence of digits
ToNumber(s) ==
    IF s = <<>> THEN 0
    ELSE 10 * ToNumber(SubSeq(s, 1, Len(s) - 1)) + DigitOf[s[Len(s)]]

\* the directive %Y of strptime: exactly four digits
MatchesYear(f) == Len(f) = 4 /\ \A i \in 1..4 : f[i] \in Digits

\* the directive %m: 1[0-2] | 0[1-9] | [1-9]
MatchesMonth(f) ==
    \/ Len(f) = 2 /\ f[1] = "1" /\ f[2] \in {"0", "1", "2"}
    \/ Len(f) = 2 /\ f[1] = "0" /\ f[2] \in Digits \ {"0"}
    \/ Len(f) = 1 /\ f[1] \in Digits \ {"0"}

\* the directive %d: 3[01] | [12]\d | 0[1-9] | [1-9] | " "[1-9]
MatchesDay(f) ==
    \/ Len(f) = 2 /\ f[1] = "3" /\ f[2] \in {"0", "1"}
    \/ Len(f) = 2 /\ f[1] \in {"1", "2"} /\ f[2] \in Digits
    \/ Len(f) = 2 /\ f[1] \in {"0", " "} /\ f[2] \in Digits \ {"0"}
    \/ Len(f) = 1 /\ f[1] \in Digits \ {"0"}

\* number of days of a month (calendar.monthrange)
DaysInMonth(y, m) ==
    IF m = 2 THEN (IF y % 4 = 0 /\ (y % 100 # 0 \/ y % 400 = 0) THEN 29 ELSE 28)
    ELSE IF m \in {4, 6, 9, 11} THEN 30 ELSE 31

\* int() of a day field, which may start with a blank
DayNumber(f) == IF f[1] = " " THEN ToNumber(Tail(f)) ELSE ToNumber(f)

\* datetime.strptime(s, "%Y-%m-%d"): the date, or NaN where it raises ValueError
Strptime(s) ==
    LET dashes == {i \in DOMAIN s : s[i] = "-"}
    IN  IF Cardinality(dashes) # 2 THEN NaN
        ELSE LET d1 == CHOOSE i \in dashes : \A j \in dashes : i <= j
                 d2 == CHOOSE i \in dashes : \A j \in dashes : j <= i
                 fy == SubSeq(s, 1, d1 - 1)
                 fm == SubSeq(s, d1 + 1, d2 - 1)
                 fd == SubSeq(s, d2 + 1, Len(s))
             IN  IF ~(MatchesYear(fy) /\ MatchesMonth(fm) /\ MatchesDay(fd)) THEN NaN
                 ELSE LET y == ToNumber(fy)
                          m == ToNumber(fm)
                          d == DayNumber(fd)
                      IN  IF y < 1 \/ d > DaysInMonth(y, m) THEN NaN
                          ELSE <<<<y, m, d>>>>

\* the exception an entry point raises
Raised(type, kind, param_name) == [type |-> type, kind |-> kind, param |-> param_name]

\* convert_to_datetime(date_value, param_name): the datetime returned, or the
\* exception raised
ConvertToDatetime(date_value, param_name) ==
    IF date_value.type = "datetime" THEN [value |-> <<date_value.value>>, error |-> NaN]
    ELSE IF date_value.type = "str"
    THEN LET parsed == Strptime(date_value.value)
         IN  IF NotNull(parsed) THEN [value |-> parsed, error |-> NaN]
             ELSE [value |-> NaN, error |-> <<Raised("ValueError", "format", param_name)>>]
    ELSE [value |-> NaN, error |-> <<Raised("TypeError", "type", param_name)>>]

\* a < b on datetimes
DateLess(a, b) ==
    \/ a[1] < b[1]
    \/ a[1] = b[1] /\ a[2] < b[2]
    \/ a[1] = b[1] /\ a[2] = b[2] /\ a[3] < b[3]

\* the check with <= in place of <, which rejects a one-day range
ValidatePairStrict(start_date, final_date) ==
    LET s == ConvertToDatetime(start_date, "start_date")
    IN  IF NotNull(s.error)
        THEN [error |-> s.error, start_date |-> NaN, final_date |-> NaN]
        ELSE LET f == ConvertToDatetime(final_date, "final_date")
             IN  IF NotNull(f.error)
                 THEN [error |-> f.error, start_date |-> s.value, final_date |-> NaN]
                 ELSE IF ~DateLess(s.value[1], f.value[1])
                 THEN [error |-> <<Raised("ValueError", "range", "final_date")>>,
                       start_date |-> s.value, final_date |-> f.value]
                 ELSE [error |-> NaN, start_date |-> s.value, final_date |-> f.value]

\* the opening lines of every date-pair entry point: convert start_date, then
\* final_date, then refuse final_date < start_date
ValidatePair(start_date, final_date) ==
    LET s == ConvertToDatetime(start_date, "start_date")
    IN  IF NotNull(s.error)
        THEN [error |-> s.error, start_date |-> NaN, final_date |-> NaN]
        ELSE LET f == ConvertToDatetime(final_date, "final_date")
             IN  IF NotNull(f.error)
                 THEN [error |-> f.error, start_date |-> s.value, final_date |-> NaN]
                 ELSE IF DateLess(f.value[1], s.value[1])
                 THEN [error |-> <<Raised("ValueError", "range", "final_date")>>,
                       start_date |-> s.value, final_date |-> f.value]
                 ELSE [error |-> NaN, start_date |-> s.value, final_date |-> f.value]

\* what a call leaves behind: the exception, the dates the object or the
\* query holds, whether a source was queried, and the object's df
Outcome(v, queried) ==
    [error |-> v.error,
     start_date |-> IF NotNull(v.error) THEN NaN ELSE v.start_date,
     final_date |-> IF NotNull(v.error) THEN NaN ELSE v.final_date,
     queried |-> queried]

\* CPI.__init__, QFactors.__init__, MacroPredictors.__init__: the dates are
\* kept on the object and nothing is fetched
ConstructWithDates(entry) ==
    /\ pc = "call"
    /\ call.entry = entry
    /\ outcome' = Outcome(ValidatePair(call.start_date, call.final_date), FALSE)
    /\ pc' = IF NotNull(outcome'.error) THEN "raised" ELSE "constructed"
    /\ UNCHANGED <<call, funda, compustat_df, fetchVars, panelVars, assembleVars>>
    /\ UNCHANGED otherVars

CpiInit == ConstructWithDates("CPI")

QFactorsInit == ConstructWithDates("QFactors")

MacroPredictorsInit == ConstructWithDates("MacroPredictors")

\* FamaFrench.get_data: the factor library is read with the converted dates
FamaFrenchGetData ==
    /\ pc = "call"
    /\ call.entry = "FamaFrench.get_data"
    /\ LET v == ValidatePair(call.start_date, call.final_date)
       IN  outcome' = Outcome(v, IsNull(v.error))
    /\ pc' = IF NotNull(outcome'.error) THEN "raised" ELSE "returned"
    /\ UNCHANGED <<call, funda, compustat_df, fetchVars, panelVars, assembleVars>>
    /\ UNCHANGED otherVars

\* Compustat.set_data up to set_raw_data: self.df holds the fetched rows
CompustatSetRawData ==
    /\ pc = "call"
    /\ call.entry = "Compustat.set_data"
    /\ LET v == ValidatePair(call.start_date, call.final_date)
       IN  /\ outcome' = Outcome(v, IsNull(v.error))
           /\ compustat_df' = IF NotNull(v.error) THEN compustat_df ELSE funda
    /\ pc' = IF NotNull(outcome'.error) THEN "raised" ELSE "compustat_raw"
    /\ UNCHANGED <<call, funda, fetchVars, panelVars, assembleVars>>
    /\ UNCHANGED otherVars

-----------------------------------------------------------------------------
(* CRSP security panel                                                     *)

\* a row of CRSP.df; columns not created yet hold NaN
Row(p, d, ex, ret, cap) ==
    [permno |-> p, date |-> d, exchange |-> ex, ret |-> ret, mktcap |-> cap,
     ret_excess |-> NaN, momentum |-> NaN, volatility |-> NaN,
     size_category |-> NaN, gvkey |-> NaN]

\* rows of one security, in frame order (groupby('permno'))
GroupOf(s, p) == SelectSeq(s, LAMBDA r : r.permno = p)

\* number of rows of r's security that precede position j of s
IndexInGroup(s, j) == Cardinality({k \in 1..(j - 1) : s[k].permno = s[j].permno})

\* first index of the momentum loop, range(12, len(group))
MomentumStart == 12

\* compute_momentum with the slice iloc[i - 12:i], which keeps the latest month
MomentumAtWithLastMonth(group, i) ==
    IF i < MomentumStart THEN NaN
    ELSE LET past_returns == [k \in 1..12 |-> group[i - 12 + k].ret_excess[1]]
         IN  <<ProdGross(past_returns) - 1>>

\* compute_momentum, value at 0-based index i of a group
MomentumAt(group, i) ==
    IF i < MomentumStart THEN NaN
    ELSE LET past_returns == [k \in 1..11 |-> group[i - 12 + k].ret_excess[1]]
         IN  <<ProdGross(past_returns) - 1>>

\* assign_exchange of change_crsp_exchange_codes
AssignExchange(primaryexch) ==
    IF primaryexch = "N" THEN "NYSE"
    ELSE IF primaryexch = "A" THEN "AMEX"
    ELSE IF primaryexch = "Q" THEN "NASDAQ"
    ELSE "Other"

\* assign_industry with the upper edge of Construction left out
AssignIndustryOpenEdge(siccd) ==
    IF 1 <= siccd /\ siccd <= 999 THEN "Agriculture"
    ELSE IF 1000 <= siccd /\ siccd <= 1499 THEN "Mining"
    ELSE IF 1500 <= siccd /\ siccd < 1799 THEN "Construction"
    ELSE IF 2000 <= siccd /\ siccd <= 3999 THEN "Manufacturing"
    ELSE IF 4000 <= siccd /\ siccd <= 4899 THEN "Transportation"
    ELSE IF 4900 <= siccd /\ siccd <= 4999 THEN "Utilities"
    ELSE IF 5000 <= siccd /\ siccd <= 5199 THEN "Wholesale"
    ELSE IF 5200 <= siccd /\ siccd <= 5999 THEN "Retail"
    ELSE IF 6000 <= siccd /\ siccd <= 6799 THEN "Finance"
    ELSE IF 7000 <= siccd /\ siccd <= 8999 THEN "Services"
    ELSE IF 9000 <= siccd /\ siccd <= 9999 THEN "Public"
    ELSE "Missing"

\* assign_industry of change_crsp_industry_codes
AssignIndustry(siccd) ==
    IF 1 <= siccd /\ siccd <= 999 THEN "Agriculture"
    ELSE IF 1000 <= siccd /\ siccd <= 1499 THEN "Mining"
    ELSE IF 1500 <= siccd /\ siccd <= 1799 THEN "Construction"
    ELSE IF 2000 <= siccd /\ siccd <= 3999 THEN "Manufacturing"
    ELSE IF 4000 <= siccd /\ siccd <= 4899 THEN "Transportation"
    ELSE IF 4900 <= siccd /\ siccd <= 4999 THEN "Utilities"
    ELSE IF 5000 <= siccd /\ siccd <= 5199 THEN "Wholesale"
    ELSE IF 5200 <= siccd /\ siccd <= 5999 THEN "Retail"
    ELSE IF 6000 <= siccd /\ siccd <= 6799 THEN "Finance"
    ELSE IF 7000 <= siccd /\ siccd <= 8999 THEN "Services"
    ELSE IF 9000 <= siccd /\ siccd <= 9999 THEN "Public"
    ELSE "Missing"

\* change_crsp_exchange_codes(crsp_df), crsp_df held in df: the column
\* exchange is added in place
ChangeCrspExchangeCodes ==
    /\ pc = "fetched"
    /\ df' = [i \in DOMAIN df |->
                df[i] @@ [exchange |-> AssignExchange(df[i].primaryexch)]]
    /\ pc' = "exchange"
    /\ UNCHANGED <<factors, thresholds, links, compustatVars, fetchVars,
                   dateVars, assembleVars>>
    /\ UNCHANGED otherVars

\* change_crsp_industry_codes(crsp_df): the column industry is added in place
ChangeCrspIndustryCodes ==
    /\ pc = "exchange"
    /\ df' = [i \in DOMAIN df |->
                df[i] @@ [industry |-> AssignIndustry(df[i].siccd)]]
    /\ pc' = "industry"
    /\ UNCHANGED <<factors, thresholds, links, compustatVars, fetchVars,
                   dateVars, assembleVars>>
    /\ UNCHANGED otherVars

\* CRSP.set_raw_data, the first step of CRSP.set_data: self.df holds the
\* fetched rows, shares in units and the exchange named
CrspSetRawData ==
    /\ pc = "call"
    /\ call.entry = "CRSP.set_data"
    /\ LET v == ValidatePair(call.start_date, call.final_date)
       IN  /\ outcome' = Outcome(v, IsNull(v.error))
           /\ df' = IF NotNull(v.error) THEN df
                    ELSE [i \in DOMAIN msf |->
                            [permno |-> msf[i].permno, date |-> msf[i].date,
                             exchange |-> AssignExchange(msf[i].primaryexch),
                             ret |-> msf[i].ret,
                             shrout |-> IF IsNull(msf[i].shrout) THEN NaN
                                        ELSE <<msf[i].shrout[1] * 1000>>,
                             altprc |-> msf[i].altprc]]
    /\ pc' = IF NotNull(outcome'.error) THEN "raised" ELSE "raw"
    /\ UNCHANGED <<call, factors, thresholds, links, compustatVars, fetchVars,
                   assembleVars>>
    /\ UNCHANGED otherVars

\* the mktcap column without replace(0, np.nan)
MarketCapWithZero(shrout, altprc) ==
    IF IsNull(shrout) \/ IsNull(altprc) THEN NaN
    ELSE <<(shrout[1] * altprc[1]) \div 1000000>>

\* shrout * altprc / 1000000 with 0 replaced by NaN; the prices of the model
\* are multiples of 1000, so that the quotient is a whole number
MarketCap(shrout, altprc) ==
    IF IsNull(shrout) \/ IsNull(altprc) THEN NaN
    ELSE IF shrout[1] * altprc[1] = 0 THEN NaN
    ELSE <<(shrout[1] * altprc[1]) \div 1000000>>

\* CRSP.create_market_cap_column
CreateMarketCapColumn ==
    /\ pc = "raw"
    /\ df' = [i \in DOMAIN df |->
                Row(df[i].permno, df[i].date, df[i].exchange, df[i].ret,
                    MarketCap(df[i].shrout, df[i].altprc))]
    /\ pc' = "mktcap"
    /\ UNCHANGED <<factors, thresholds, links, compustatVars, fetchVars,
                   dateVars, assembleVars>>
    /\ UNCHANGED otherVars

\* CRSP.create_excess_return_column
CreateExcessReturnColumn ==
    /\ pc = "mktcap"
    /\ LET merged == [i \in DOMAIN df |->
                        [df[i] EXCEPT !.ret_excess = Sub(df[i].ret, factors[df[i].date])]]
       IN  df' = SelectSeq(merged, LAMBDA r : NotNull(r.ret_excess) /\ NotNull(r.mktcap))
    /\ pc' = "excess"
    /\ UNCHANGED <<factors, thresholds, links, crsp, compustat, lag,
                 characteristics, data_fama_macbeth, data>>
    /\ UNCHANGED <<compustatVars, fetchVars, dateVars>>
    /\ UNCHANGED otherVars

\* CRSP.create_momentum_column
CreateMomentumColumn ==
    /\ pc = "excess"
    /\ \E sorted \in {SortValues(df, <<"permno", "date">>)} :
           df' = [j \in DOMAIN sorted |->
                    [sorted[j] EXCEPT !.momentum =
                        MomentumAt(GroupOf(sorted, sorted[j].permno),
                                   IndexInGroup(sorted, j))]]
    /\ pc' = "momentum"
    /\ UNCHANGED <<factors, thresholds, links, crsp, compustat, lag,
                 characteristics, data_fama_macbeth, data>>
    /\ UNCHANGED <<compustatVars, fetchVars, dateVars>>
    /\ UNCHANGED otherVars

\* batch_size of get_daily_crsp_data
BatchSize == 500

\* window and min_periods of the rolling standard deviation
Window == 60

MinPeriods == 20

\* days of a month of the model calendar: day numbers run on from month to month
DaysPerMonth == 30

\* the date of a monthly row, the first day of its month (date_trunc('month'))
MonthDate(m) == (m - 1) * DaysPerMonth + 1

RECURSIVE SetToSeq(_)
\* the elements of a set of numbers in ascending order
SetToSeq(S) ==
    IF S = {} THEN <<>>
    ELSE LET x == CHOOSE y \in S : \A z \in S : y <= z
         IN  <<x>> \o SetToSeq(S \ {x})

\* (ret - rf).clip(lower=-1)
ClipLower(x) == IF IsNull(x) THEN NaN ELSE IF x[1] < -1 THEN <<-1>> ELSE x

\* one batch of get_daily_crsp_data: the rows of the batch's permnos without
\* undefined values, with the daily excess return
DailyBatch(permno_batch) ==
    LET crsp_daily_sub == SelectSeq(dsf, LAMBDA r : r.permno \in Range(permno_batch)
                                                    /\ NotNull(r.ret))
    IN  [i \in DOMAIN crsp_daily_sub |->
            [permno |-> crsp_daily_sub[i].permno, date |-> crsp_daily_sub[i].date,
             ret_excess |-> ClipLower(Sub(crsp_daily_sub[i].ret,
                                          factors_daily[crsp_daily_sub[i].date]))]]

\* get_daily_crsp_data: the batches of the permno list, concatenated
GetDailyCrspData ==
    LET permnos == SetToSeq({r.permno : r \in Range(dsf) \cup Range(df)})
        batches == (Len(permnos) + BatchSize - 1) \div BatchSize
    IN  Concat([j \in 1..batches |->
                  DailyBatch(SubSeq(permnos, (j - 1) * BatchSize + 1,
                                    Min2(j * BatchSize, Len(permnos))))])

\* the slice with its start one position late, permnos[(j - 1) * size + 1 : ...]
PermnoBatchLate(permnos, size, j) ==
    SubSeq(permnos, (j - 1) * size + 2, Min2(j * size, Len(permnos)))

\* permno_batch of iteration j for a batch size:
\* permnos[((j - 1) * batch_size):(min(j * batch_size, len(permnos)))]
PermnoBatch(permnos, size, j) ==
    SubSeq(permnos, (j - 1) * size + 1, Min2(j * size, Len(permnos)))

\* np.ceil(len(permnos) / batch_size).astype(int)
NumBatches(permnos, size) == (Len(permnos) + size - 1) \div size

RECURSIVE SumOver(_, _, _)
\* sum of the values x[lo..hi], an undefined value counting as 0
SumOver(x, lo, hi) ==
    IF hi < lo THEN 0
    ELSE (IF IsNull(x[hi]) THEN 0 ELSE x[hi][1]) + SumOver(x, lo, hi - 1)

RECURSIVE SumSquaresOver(_, _, _)
SumSquaresOver(x, lo, hi) ==
    IF hi < lo THEN 0
    ELSE (IF IsNull(x[hi]) THEN 0 ELSE x[hi][1] * x[hi][1])
         + SumSquaresOver(x, lo, hi - 1)

\* Series.std() (ddof = 1) of the defined values of x[lo..hi], k >= 2 of them:
\* the square root of the variance n/d, held as the reduced fraction <<n, d>>
Std(x, lo, hi, k) ==
    LET sum == SumOver(x, lo, hi)
        n == k * SumSquaresOver(x, lo, hi) - sum * sum
        d == k * (k - 1)
    IN  <<n \div Gcd(n, d), d \div Gcd(n, d)>>

\* compute_vol with the shift left out: the window ends at the day itself
VolatilityAtUnshifted(x, i) ==
    LET lo == IF i + 1 > Window THEN i + 2 - Window ELSE 1
        k == Cardinality({j \in lo..(i + 1) : NotNull(x[j])})
    IN  IF k < MinPeriods THEN NaN ELSE Std(x, lo, i + 1, k)

\* compute_vol, value at 0-based index i of the excess returns x of a group:
\* shift(1).rolling(window=60, min_periods=20).std()
VolatilityAt(x, i) ==
    LET lo == IF i > Window THEN i + 1 - Window ELSE 1
        k == Cardinality({j \in lo..i : NotNull(x[j])})
    IN  IF k < MinPeriods THEN NaN ELSE Std(x, lo, i, k)

\* the merge with the daily date truncated to its month: every day of the
\* month of r matches
MergeVolatilityOfMonth(r, daily) ==
    LET matches == SelectSeq(daily, LAMBDA x : /\ x.permno = r.permno
                                               /\ x.date >= MonthDate(r.date)
                                               /\ x.date < MonthDate(r.date + 1))
    IN  IF matches = <<>> THEN <<[r EXCEPT !.volatility = NaN]>>
        ELSE [k \in DOMAIN matches |-> [r EXCEPT !.volatility = matches[k].volatility]]

\* self.df.merge(df_daily[["permno", "date", "volatility"]], how="left")
MergeVolatility(r, daily) ==
    LET matches == SelectSeq(daily, LAMBDA x : /\ x.permno = r.permno
                                               /\ x.date = MonthDate(r.date))
    IN  IF matches = <<>> THEN <<[r EXCEPT !.volatility = NaN]>>
        ELSE [k \in DOMAIN matches |-> [r EXCEPT !.volatility = matches[k].volatility]]

\* the excess returns of every security of the sorted daily frame, in order
SeriesOf(sorted) ==
    [p \in {r.permno : r \in Range(sorted)} |->
        LET group == GroupOf(sorted, p)
        IN  [j \in DOMAIN group |-> group[j].ret_excess]]

\* compute_vol over the sorted daily frame, group by group
ComputeVol(sorted) ==
    CHOOSE daily \in
        {[j \in DOMAIN sorted |->
            [permno |-> sorted[j].permno, date |-> sorted[j].date,
             ret_excess |-> sorted[j].ret_excess,
             volatility |-> VolatilityAt(series[sorted[j].permno],
                                         IndexInGroup(sorted, j))]] :
         series \in {SeriesOf(sorted)}} : TRUE

\* CRSP.create_volatility_column; pd.concat raises when no batch has a row
CreateVolatilityColumn ==
    /\ pc = "momentum"
    /\ \E fetched \in {GetDailyCrspData} :
           IF fetched = <<>>
           THEN /\ pc' = "error"
                /\ UNCHANGED <<df, df_daily>>
           ELSE \E daily \in {ComputeVol(SortValues(fetched, <<"permno", "date">>))},
                   panel \in {SortValues(df, <<"permno", "date">>)} :
                    /\ df_daily' = daily
                    /\ df' = Concat([i \in DOMAIN panel |->
                                        MergeVolatility(panel[i], daily)])
                    /\ pc' = "volatility"
    /\ UNCHANGED <<factors, thresholds, links, msf, dsf, factors_daily,
                   compustatVars, dateVars, assembleVars>>
    /\ UNCHANGED otherVars

\* get_daily_crsp_data up to its loop, for the batch size of the call: the
\* permno list is read and the number of batches computed
StartDailyBatches ==
    /\ pc = "momentum"
    /\ call # None
    /\ LET permnos == SetToSeq({r.permno : r \in Range(dsf) \cup Range(df)})
       IN  batching' = [permnos |-> permnos, batch_size |-> call.batch_size,
                        batches |-> NumBatches(permnos, call.batch_size),
                        pending |-> 1..NumBatches(permnos, call.batch_size),
                        df_list |-> <<>>]
    /\ pc' = "batching"
    /\ UNCHANGED <<panelVars, assembleVars, compustatVars, fetchVars, dateVars,
                   filterVars, storeVars, httpsVars>>

\* one iteration of the loop of get_daily_crsp_data, for any batch not yet
\* fetched (the loop of the code takes them in ascending order): an empty
\* batch is not appended
FetchDailyBatch ==
    /\ pc = "batching"
    /\ \E j \in batching.pending :
           \E crsp_daily_sub \in {DailyBatch(PermnoBatch(batching.permnos,
                                                         batching.batch_size, j))} :
               batching' = [batching EXCEPT
                               !.pending = @ \ {j},
                               !.df_list = IF crsp_daily_sub = <<>> THEN @
                                           ELSE Append(@, crsp_daily_sub)]
    /\ UNCHANGED <<pc, panelVars, assembleVars, compustatVars, fetchVars, dateVars,
                   filterVars, storeVars, httpsVars>>

\* create_volatility_column after the loop: pd.concat (which raises on an
\* empty list), the two sorts, compute_vol per permno and the merge
ConcatAndComputeVolatility ==
    /\ pc = "batching"
    /\ batching.pending = {}
    /\ IF batching.df_list = <<>>
       THEN /\ pc' = "error"
            /\ UNCHANGED <<df, df_daily>>
       ELSE \E daily \in {ComputeVol(SortValues(Concat(batching.df_list),
                                                 <<"permno", "date">>))},
               panel \in {SortValues(df, <<"permno", "date">>)} :
                /\ df_daily' = daily
                /\ df' = Concat([i \in DOMAIN panel |->
                                    MergeVolatility(panel[i], daily)])
                /\ pc' = "volatility"
    /\ UNCHANGED <<factors, thresholds, links, msf, dsf, factors_daily,
                   compustatVars, dateVars, assembleVars>>
    /\ UNCHANGED <<filterVars, storeVars, httpsVars, batching>>

\* thresholds before classify_for_size has run
NoThresholds == [large |-> NaN, small |-> NaN]

\* mktcap >= threshold on floats: False when either side is NaN (threshold x10)
GeqThreshold(mktcap, threshold) ==
    NotNull(mktcap) /\ NotNull(threshold) /\ 10 * mktcap[1] >= threshold[1]

\* classify_size with strict comparisons
ClassifySizeStrict(mktcap, large_cap_threshold, small_cap_threshold) ==
    IF GeqThreshold(mktcap, large_cap_threshold)
          /\ 10 * mktcap[1] # large_cap_threshold[1] THEN <<"Large">>
    ELSE IF GeqThreshold(mktcap, small_cap_threshold)
          /\ 10 * mktcap[1] # small_cap_threshold[1] THEN <<"Small">>
    ELSE <<"Micro">>

\* classify_size, closure of classify_for_size
ClassifySize(mktcap, large_cap_threshold, small_cap_threshold) ==
    IF GeqThreshold(mktcap, large_cap_threshold) THEN <<"Large">>
    ELSE IF GeqThreshold(mktcap, small_cap_threshold) THEN <<"Small">>
    ELSE <<"Micro">>

\* CRSP.classify_for_size
ClassifyForSize ==
    /\ pc = "volatility"
    /\ LET nyse_stocks == SelectSeq(df, LAMBDA r : r.exchange = "NYSE")
           nyse_mktcap == [i \in DOMAIN nyse_stocks |-> nyse_stocks[i].mktcap[1]]
           large_cap_threshold == Quantile10(nyse_mktcap, 7)
           small_cap_threshold == Quantile10(nyse_mktcap, 3)
       IN  /\ thresholds' = [large |-> large_cap_threshold, small |-> small_cap_threshold]
           /\ df' = [i \in DOMAIN df |->
                        [df[i] EXCEPT !.size_category =
                            ClassifySize(df[i].mktcap, large_cap_threshold,
                                         small_cap_threshold)]]
    /\ pc' = "size"
    /\ UNCHANGED <<factors, links, crsp, compustat, lag,
                 characteristics, data_fama_macbeth, data>>
    /\ UNCHANGED <<compustatVars, fetchVars, dateVars>>
    /\ UNCHANGED otherVars

\* ccm_links with the end of a link left out of its validity (date < linkenddt)
CcmLinksExclusiveEnd(panel, table) ==
    LET inner == Concat([i \in DOMAIN panel |->
                    LET matches == SelectSeq(table, LAMBDA l : l.permno = panel[i].permno)
                    IN  [k \in DOMAIN matches |->
                            [permno |-> panel[i].permno, date |-> panel[i].date,
                             gvkey |-> matches[k].gvkey, linkdt |-> matches[k].linkdt,
                             linkenddt |-> matches[k].linkenddt]]])
        queried == SelectSeq(inner, LAMBDA x : /\ NotNull(x.gvkey)
                                               /\ x.date >= x.linkdt
                                               /\ x.date < x.linkenddt)
    IN  [k \in DOMAIN queried |->
            [permno |-> queried[k].permno, gvkey |-> queried[k].gvkey,
             date |-> queried[k].date]]

\* ccm_links of get_compustat_merge_links: inner merge of the panel with the
\* link table on permno, filtered by the query, columns permno, gvkey, date
CcmLinks(panel, table) ==
    LET inner == Concat([i \in DOMAIN panel |->
                    LET matches == SelectSeq(table, LAMBDA l : l.permno = panel[i].permno)
                    IN  [k \in DOMAIN matches |->
                            [permno |-> panel[i].permno, date |-> panel[i].date,
                             gvkey |-> matches[k].gvkey, linkdt |-> matches[k].linkdt,
                             linkenddt |-> matches[k].linkenddt]]])
        queried == SelectSeq(inner, LAMBDA x : /\ NotNull(x.gvkey)
                                               /\ x.date >= x.linkdt
                                               /\ x.date <= x.linkenddt)
    IN  [k \in DOMAIN queried |->
            [permno |-> queried[k].permno, gvkey |-> queried[k].gvkey,
             date |-> queried[k].date]]

\* left merge of one panel row with ccm_links on (permno, date)
LeftMergeLinks(r, ccm_links) ==
    LET matches == SelectSeq(ccm_links,
                             LAMBDA x : x.permno = r.permno /\ x.date = r.date)
    IN  IF matches = <<>> THEN <<[r EXCEPT !.gvkey = NaN]>>
        ELSE [k \in DOMAIN matches |-> [r EXCEPT !.gvkey = matches[k].gvkey]]

\* CRSP.get_compustat_merge_links
GetCompustatMergeLinks ==
    /\ pc = "size"
    /\ LET ccm_links == CcmLinks(df, links)
       IN  df' = Concat([i \in DOMAIN df |-> LeftMergeLinks(df[i], ccm_links)])
    /\ pc' = "linked"
    /\ UNCHANGED <<factors, thresholds, links, crsp, compustat, lag,
                 characteristics, data_fama_macbeth, data>>
    /\ UNCHANGED <<compustatVars, fetchVars, dateVars>>
    /\ UNCHANGED otherVars

-----------------------------------------------------------------------------
(* Momentum: inputs                                                        *)

MaxMonthMom == 14

MonthsMom == 1..MaxMonthMom

\* months in which the second security is listed (a late listing)
LateMonths == (MaxMonthMom - 2)..MaxMonthMom

\* raw monthly rows in fetch order (by month, then security); security 1 has
\* return 1 in month h1, 2 in month h2 and 0 elsewhere, and one disturbed
\* month g: row absent, return missing, market cap missing or no factor row
RawMomRow(p, m, kind, g, h1, h2) ==
    IF p = 1
    THEN IF kind = "absent" /\ m = g THEN <<>>
         ELSE <<Row(1, m, "NYSE",
                    IF kind = "ret" /\ m = g THEN NaN
                    ELSE IF m = h2 THEN <<2>> ELSE IF m = h1 THEN <<1>> ELSE <<0>>,
                    IF kind = "cap" /\ m = g THEN NaN ELSE <<5>>)>>
    ELSE IF m \in LateMonths THEN <<Row(2, m, "NASDAQ", <<1>>, <<3>>)>> ELSE <<>>

RawMom(kind, g, h1, h2) ==
    Concat([m \in MonthsMom |->
              RawMomRow(1, m, kind, g, h1, h2) \o RawMomRow(2, m, kind, g, h1, h2)])

InitMomentum ==
    \E kind \in {"none", "absent", "ret", "cap", "rf"}, g \in MonthsMom,
       h1, h2 \in 0..MaxMonthMom :
        /\ kind = "none" => g = 1
        /\ df = RawMom(kind, g, h1, h2)
        /\ factors = [m \in MonthsMom |-> IF kind = "rf" /\ m = g THEN NaN ELSE <<0>>]
        /\ pc = "mktcap"
        /\ thresholds = NoThresholds
        /\ links = <<>>
        /\ crsp = <<>>
        /\ compustat = <<>>
        /\ lag = 0
        /\ characteristics = <<>>
        /\ data_fama_macbeth = <<>>
        /\ data = <<>>
        /\ NoFundamentals /\ NoFetch /\ NoCall /\ NoOther

NextMomentum == CreateExcessReturnColumn \/ CreateMomentumColumn

SpecMomentum == InitMomentum /\ [][NextMomentum]_vars

-----------------------------------------------------------------------------
(* Momentum: properties                                                    *)

RowsOf(p) == {r \in Range(df) : r.permno = p}

\* 0-based position of row r among the dates of its security
RankOf(r) == Cardinality({x \in RowsOf(r.permno) : x.date < r.date})

RowAtRank(p, k) == CHOOSE x \in RowsOf(p) : RankOf(x) = k

RECURSIVE ProdCalendar(_, _, _)
\* product of (1 + excess_return) of security p over the calendar months lo..hi
ProdCalendar(p, lo, hi) ==
    IF lo > hi THEN 1
    ELSE LET here == {r \in RowsOf(p) : r.date = hi}
         IN  (IF here = {} THEN 1 ELSE 1 + (CHOOSE r \in here : TRUE).ret_excess[1])
             * ProdCalendar(p, lo, hi - 1)

\* a security whose surviving rows skip a calendar month
HasGap(p) ==
    \E a, b \in RowsOf(p) :
        /\ a.date + 1 < b.date
        /\ \A x \in RowsOf(p) : ~(a.date < x.date /\ x.date < b.date)

\* C4: every defined momentum at period t is the compounded excess return of
\* the calendar months t-12 .. t-2 of the same security
C4_MomentumIsCalendarWindow ==
    pc = "momentum" =>
        \A r \in Range(df) :
            NotNull(r.momentum) =>
                r.momentum = <<ProdCalendar(r.permno, r.date - 12, r.date - 2) - 1>>

\* C5: within the period-sorted surviving rows of a security, momentum at
\* 0-based index i is undefined for i < 12 and otherwise is the product of
\* (1 + excess_return) over the indexes i-12 .. i-2, minus 1
C5_MomentumIsIndexWindow ==
    pc = "momentum" =>
        \A r \in Range(df) :
            LET i == RankOf(r)
            IN  IF i < 12 THEN IsNull(r.momentum)
                ELSE r.momentum =
                       <<ProdGross([k \in 1..11 |->
                                      RowAtRank(r.permno, i - 13 + k).ret_excess[1]]) - 1>>

\* C5 witness: a security with a skipped month has a defined momentum that
\* compounds non-zero returns, next to a security with fewer than 13 rows
C5_Witness ==
    /\ pc = "momentum"
    /\ \E r \in Range(df) :
           /\ HasGap(r.permno)
           /\ NotNull(r.momentum)
           /\ r.momentum[1] > 1
    /\ \E r \in Range(df) : RankOf(r) = 2 /\ Cardinality(RowsOf(r.permno)) = 3

-----------------------------------------------------------------------------
(* Volatility: inputs and properties                                       *)

MaxDays == 62

DaysVol == 1..MaxDays

MonthsVol == 1..((MaxDays - 1) \div DaysPerMonth + 1)

\* days on which security 2 trades (a late listing)
LateDays == (MaxDays - 2)..MaxDays

\* days that may lack a return or a risk-free rate
DisturbedDays == {2, MinPeriods + 1, Window + 1}

\* daily rows in fetch order (by day, then security): security 1 has return 1
\* on day s and 0 elsewhere, and no return on day g when kind is "noret"
DailyRows(kind, g, s) ==
    Concat([d \in DaysVol |->
              <<[permno |-> 1, date |-> d,
                 ret |-> IF kind = "noret" /\ d = g THEN NaN
                         ELSE IF d = s THEN <<1>> ELSE <<0>>]>>
              \o (IF d \in LateDays THEN <<[permno |-> 2, date |-> d, ret |-> <<2>>]>>
                  ELSE <<>>)])

\* the panel as create_momentum_column leaves it, sorted by (permno, date)
PanelVol ==
    [m \in MonthsVol |-> [Row(1, m, "NYSE", <<0>>, <<1>>) EXCEPT !.ret_excess = <<0>>]]
    \o <<[Row(2, Cardinality(MonthsVol), "NASDAQ", <<0>>, <<1>>) EXCEPT !.ret_excess = <<0>>]>>

InitVolatility ==
    \E kind \in {"none", "norf", "noret"}, g \in DisturbedDays, s \in 0..MaxDays :
        /\ kind = "none" => g = 2
        /\ dsf = DailyRows(kind, g, s)
        /\ factors_daily = [d \in DaysVol |-> IF kind = "norf" /\ d = g THEN NaN ELSE <<0>>]
        /\ df = PanelVol
        /\ factors = [m \in MonthsVol |-> <<0>>]
        /\ pc = "momentum"
        /\ msf = <<>>
        /\ df_daily = <<>>
        /\ thresholds = NoThresholds
        /\ links = <<>>
        /\ crsp = <<>>
        /\ compustat = <<>>
        /\ lag = 0
        /\ characteristics = <<>>
        /\ data_fama_macbeth = <<>>
        /\ data = <<>>
        /\ NoFundamentals /\ NoCall /\ NoOther

NextVolatility == CreateVolatilityColumn

SpecVolatility == InitVolatility /\ [][NextVolatility]_vars

\* daily rows of the security of r that lie before r
PriorDays(r) == {x \in Range(df_daily) : x.permno = r.permno /\ x.date < r.date}

\* the (at most) 60 latest of them
TrailingDays(r) ==
    {x \in PriorDays(r) : Cardinality({y \in PriorDays(r) : y.date > x.date}) < 60}

RECURSIVE SumReturns(_)
SumReturns(S) ==
    IF S = {} THEN 0
    ELSE LET r == CHOOSE x \in S : TRUE
         IN  r.ret_excess[1] + SumReturns(S \ {r})

RECURSIVE SumSquaredReturns(_)
SumSquaredReturns(S) ==
    IF S = {} THEN 0
    ELSE LET r == CHOOSE x \in S : TRUE
         IN  r.ret_excess[1] * r.ret_excess[1] + SumSquaredReturns(S \ {r})

\* the sample variance n/d of the returns of the rows S, as n * dd = d * nn
IsSampleStd(vol, S) ==
    LET k == Cardinality(S)
        sum == SumReturns(S)
    IN  /\ NotNull(vol)
        /\ vol[1] * (k * (k - 1)) = vol[2] * (k * SumSquaredReturns(S) - sum * sum)

\* C15: the volatility of a daily row is taken from the rows of its security
\* strictly before it, the 60 latest at most: undefined when fewer than 20 of
\* them carry an excess return (so always with fewer than 20 prior rows), and
\* otherwise their sample standard deviation (of all 60 when all are defined)
C15_VolatilityOfTrailingDays ==
    pc = "volatility" =>
        \A r \in Range(df_daily) :
            LET valid == {x \in TrailingDays(r) : NotNull(x.ret_excess)}
            IN  /\ Cardinality(PriorDays(r)) < 20 => IsNull(r.volatility)
                /\ IF Cardinality(valid) < 20 THEN IsNull(r.volatility)
                   ELSE IsSampleStd(r.volatility, valid)
                /\ (Cardinality(PriorDays(r)) >= 60 /\ Cardinality(valid) = 60) =>
                       IsSampleStd(r.volatility, TrailingDays(r))

\* C15 witness: a row with 61 prior days whose volatility is 0 because the one
\* non-zero return is the oldest day, the row before it with a non-zero
\* volatility, and rows with 19 and with 20 prior days
C15_Witness ==
    /\ pc = "volatility"
    /\ \E r \in Range(df_daily) :
           /\ r.permno = 1
           /\ Cardinality(PriorDays(r)) = 61
           /\ r.volatility = <<0, 1>>
    /\ \E q \in Range(df_daily) :
           /\ q.permno = 1
           /\ Cardinality(PriorDays(q)) = 60
           /\ NotNull(q.volatility)
           /\ q.volatility # <<0, 1>>
    /\ \E a \in Range(df_daily) :
           a.permno = 1 /\ Cardinality(PriorDays(a)) = 19 /\ IsNull(a.volatility)
    /\ \E b \in Range(df_daily) :
           b.permno = 1 /\ Cardinality(PriorDays(b)) = 20 /\ NotNull(b.volatility)

\* daily rows of the security of the monthly row r dated on r's period date
DailyOnPeriodDate(r) ==
    {x \in Range(df_daily) : x.permno = r.permno /\ x.date = MonthDate(r.date)}

\* C28: a monthly row has a defined volatility exactly when a daily record of
\* its security is dated on the row's period date (the first day of the
\* month) and has a defined volatility, which the row then carries; with at
\* most one daily record per (security, date) the panel keeps its rows
C28_VolatilityOfPeriodDate ==
    pc = "volatility" =>
        /\ \A r \in Range(df) :
               IF \E x \in DailyOnPeriodDate(r) : NotNull(x.volatility)
               THEN \E x \in DailyOnPeriodDate(r) : r.volatility = x.volatility
               ELSE IsNull(r.volatility)
        /\ Len(df) = Len(PanelVol)
        /\ \A i \in DOMAIN df : df[i].permno = PanelVol[i].permno
                                 /\ df[i].date = PanelVol[i].date

\* C28 witness: the month-3 row of security 1 is undefined although a later
\* day of that month has a defined daily volatility (the record of the first
\* day was dropped), next to a month-2 row with a defined volatility
C28_Witness ==
    /\ pc = "volatility"
    /\ \E r \in Range(df) :
           /\ r.permno = 1 /\ r.date = 3
           /\ IsNull(r.volatility)
           /\ DailyOnPeriodDate(r) = {}
           /\ \E x \in Range(df_daily) :
                  /\ x.permno = 1
                  /\ x.date > MonthDate(3)
                  /\ NotNull(x.volatility)
    /\ \E q \in Range(df) : q.permno = 1 /\ q.date = 2 /\ NotNull(q.volatility)

-----------------------------------------------------------------------------
(* Size classification: inputs and properties                              *)

NumSecSize == 3

MaxMonthSize == 2

MaxCap == 3

SecSize == 1..NumSecSize

MonthsSize == 1..MaxMonthSize

\* the panel as create_volatility_column leaves it: sorted by (permno, date),
\* every market cap and excess return defined; a security starts at market
\* cap base[p] and gains growth[p] a month
InitSize ==
    \E ex \in [SecSize -> {"NYSE", "NASDAQ"}], base \in [SecSize -> 1..MaxCap],
       growth \in [SecSize -> {0, 1}] :
        /\ df = [i \in 1..(NumSecSize * MaxMonthSize) |->
                   LET p == ((i - 1) \div MaxMonthSize) + 1
                       m == ((i - 1) % MaxMonthSize) + 1
                   IN  [Row(p, m, ex[p], <<0>>, <<base[p] + (m - 1) * growth[p]>>)
                            EXCEPT !.ret_excess = <<0>>]]
        /\ factors = [m \in MonthsSize |-> <<0>>]
        /\ pc = "volatility"
        /\ thresholds = NoThresholds
        /\ links = <<>>
        /\ crsp = <<>>
        /\ compustat = <<>>
        /\ lag = 0
        /\ characteristics = <<>>
        /\ data_fama_macbeth = <<>>
        /\ data = <<>>
        /\ NoFundamentals /\ NoFetch /\ NoCall /\ NoOther

NextSize == ClassifyForSize

SpecSize == InitSize /\ [][NextSize]_vars

\* market caps of the NYSE rows of one period
NyseCapsOfPeriod(d) ==
    LET rows == SelectSeq(df, LAMBDA r : r.exchange = "NYSE" /\ r.date = d)
    IN  [i \in DOMAIN rows |-> rows[i].mktcap[1]]

\* the category of market cap c against the thresholds p70 and p30 (x10)
CategoryAgainst(c, p70, p30) ==
    IF 10 * c >= p70 THEN <<"Large">>
    ELSE IF 10 * c >= p30 THEN <<"Small">> ELSE <<"Micro">>

\* C6: every row is classified against the 30th and 70th percentiles of the
\* market caps of the NYSE rows of its own period
C6_ThresholdsPerPeriod ==
    pc = "size" =>
        \A r \in Range(df) :
            NyseCapsOfPeriod(r.date) # <<>> =>
                r.size_category =
                    CategoryAgainst(r.mktcap[1],
                                    Quantile10(NyseCapsOfPeriod(r.date), 7)[1],
                                    Quantile10(NyseCapsOfPeriod(r.date), 3)[1])

\* C7: without NYSE rows every row gets an undefined size_category
C7_NoNyseGivesUndefined ==
    (pc = "size" /\ \A r \in Range(df) : r.exchange # "NYSE") =>
        \A r \in Range(df) : IsNull(r.size_category)

\* C8: with thresholds p30 <= p70, a row is Large iff mktcap >= p70, Small iff
\* p30 <= mktcap < p70, Micro iff mktcap < p30, and has one of the three
C8_ClassifyByThresholds ==
    (pc = "size" /\ NotNull(thresholds.large) /\ NotNull(thresholds.small)) =>
        LET p70 == thresholds.large[1]
            p30 == thresholds.small[1]
        IN  /\ p30 <= p70
            /\ \A r \in Range(df) :
                   LET c == 10 * r.mktcap[1]
                   IN  /\ r.size_category \in {<<"Large">>, <<"Small">>, <<"Micro">>}
                       /\ r.size_category = <<"Large">> <=> c >= p70
                       /\ r.size_category = <<"Small">> <=> (p30 <= c /\ c < p70)
                       /\ r.size_category = <<"Micro">> <=> c < p30

\* C8 witness: rows of all three categories, one of them with a market cap
\* equal to the 70th percentile and one equal to the 30th percentile
C8_Witness ==
    /\ pc = "size"
    /\ NotNull(thresholds.large)
    /\ thresholds.small[1] < thresholds.large[1]
    /\ \E r \in Range(df) :
           r.size_category = <<"Large">> /\ 10 * r.mktcap[1] = thresholds.large[1]
    /\ \E r \in Range(df) :
           r.size_category = <<"Small">> /\ 10 * r.mktcap[1] = thresholds.small[1]
    /\ \E r \in Range(df) : r.size_category = <<"Micro">>

-----------------------------------------------------------------------------
(* CCM links: inputs and properties                                        *)

MaxMonthLink == 3

MaxLinks == 2

MonthsLink == 1..MaxMonthLink

\* COALESCE(linkenddt, CURRENT_DATE): a date after the last panel month
CurrentDate == MaxMonthLink + 1

Gvkeys == {<<"g1">>, <<"g2">>}

LinkRecords ==
    {l \in [permno : {1, 2}, gvkey : Gvkeys \cup {NaN}, linkdt : MonthsLink,
            linkenddt : {MaxMonthLink - 1, CurrentDate}] : l.linkdt <= l.linkenddt}

LinkTables == UNION {[1..n -> LinkRecords] : n \in 0..MaxLinks}

\* the panel before classify_for_size, two NYSE securities in every month
UnsizedPanel ==
    [i \in 1..(2 * MaxMonthLink) |->
        LET p == ((i - 1) \div MaxMonthLink) + 1
            m == ((i - 1) % MaxMonthLink) + 1
        IN  [Row(p, m, "NYSE", <<0>>, <<p>>) EXCEPT !.ret_excess = <<0>>]]

\* the panel as classify_for_size leaves it
InitLink ==
    \E table \in LinkTables :
        /\ links = table
        /\ LET caps == [i \in DOMAIN UnsizedPanel |-> UnsizedPanel[i].mktcap[1]]
               large == Quantile10(caps, 7)
               small == Quantile10(caps, 3)
           IN  /\ thresholds = [large |-> large, small |-> small]
               /\ df = [i \in DOMAIN UnsizedPanel |->
                           [UnsizedPanel[i] EXCEPT !.size_category =
                               ClassifySize(UnsizedPanel[i].mktcap, large, small)]]
        /\ factors = [m \in MonthsLink |-> <<0>>]
        /\ pc = "size"
        /\ crsp = <<>>
        /\ compustat = <<>>
        /\ lag = 0
        /\ characteristics = <<>>
        /\ data_fama_macbeth = <<>>
        /\ data = <<>>
        /\ NoFundamentals /\ NoFetch /\ NoCall /\ NoOther

NextLink == GetCompustatMergeLinks

SpecLink == InitLink /\ [][NextLink]_vars

\* link records valid for row r, in table order
ValidLinks(r) ==
    SelectSeq(links, LAMBDA l : /\ l.permno = r.permno
                                /\ NotNull(l.gvkey)
                                /\ l.linkdt <= r.date
                                /\ r.date <= l.linkenddt)

\* C2: linking keeps exactly the rows of the panel, one per (permno, date),
\* each with the gvkey of its first matching link
C2_LinkKeepsOneRowPerKey ==
    [][pc' = "linked" =>
          /\ Len(df') = Len(df)
          /\ \A i \in DOMAIN df :
                 df'[i] = [df[i] EXCEPT !.gvkey =
                              IF ValidLinks(df[i]) = <<>> THEN NaN
                              ELSE ValidLinks(df[i])[1].gvkey]]_vars

\* C17: linking gives a row a gvkey exactly when a link record of its permno
\* with a gvkey covers its date, both ends included; every row of the panel
\* is kept, and the linked panel has no other rows
C17_GvkeyIffValidLink ==
    [][pc' = "linked" =>
          /\ \A i \in DOMAIN df :
                 \E j \in DOMAIN df' : df'[j] = [df[i] EXCEPT !.gvkey = df'[j].gvkey]
          /\ \A j \in DOMAIN df' :
                 /\ \E i \in DOMAIN df : df'[j] = [df[i] EXCEPT !.gvkey = df'[j].gvkey]
                 /\ NotNull(df'[j].gvkey) <=>
                        \E k \in DOMAIN links :
                            /\ links[k].permno = df'[j].permno
                            /\ NotNull(links[k].gvkey)
                            /\ links[k].linkdt <= df'[j].date
                            /\ df'[j].date <= links[k].linkenddt]_vars

\* C17 witness: a row linked in the last month of its link, a row of the same
\* security after it with no gvkey, and a row that starts an open-ended link
C17_Witness ==
    /\ pc = "linked"
    /\ \E a, b \in DOMAIN df, k \in DOMAIN links :
           /\ links[k].permno = 1 /\ NotNull(links[k].gvkey)
           /\ df[a].permno = 1 /\ df[a].date = links[k].linkenddt
           /\ df[a].gvkey = links[k].gvkey
           /\ df[b].permno = 1 /\ df[b].date > df[a].date /\ IsNull(df[b].gvkey)
    /\ \E c \in DOMAIN df, k \in DOMAIN links :
           /\ links[k].permno = 2 /\ links[k].linkenddt = CurrentDate
           /\ df[c].permno = 2 /\ df[c].date = links[k].linkdt
           /\ df[c].gvkey = links[k].gvkey /\ NotNull(df[c].gvkey)

-----------------------------------------------------------------------------
(* Calendar of the fundamentals                                            *)

\* datadate.dt.to_period("M").dt.to_timestamp(): a day <<month, day>> to its month
ToMonth(datadate) == datadate[1]

\* calendar year of a month number; month 3 is a January
YearOf(m) == (m + 9) \div 12

-----------------------------------------------------------------------------
(* Compustat fundamentals.  Amounts are whole numbers; a quotient n/d is   *)
(* held as the reduced fraction <<n, d>> with d > 0, float infinity as     *)
(* <<"inf">> or <<"-inf">>.                                                *)

Abs(n) == IF n < 0 THEN -n ELSE n

\* x + y on nullable numbers (NaN propagates)
Add(x, y) == IF IsNull(x) \/ IsNull(y) THEN NaN ELSE <<x[1] + y[1]>>

\* Series.combine_first: the value of x where it is defined, else that of y
CombineFirst(x, y) == IF NotNull(x) THEN x ELSE y

\* Series.fillna(v)
Fillna(x, v) == IF IsNull(x) THEN <<v>> ELSE x

\* x / y on float columns: NaN propagates, a zero divisor gives an infinity
\* (NaN for 0 / 0) and raises nothing
Div(x, y) ==
    IF IsNull(x) \/ IsNull(y) THEN NaN
    ELSE IF y[1] = 0
    THEN (IF x[1] = 0 THEN NaN ELSE IF x[1] > 0 THEN <<"inf">> ELSE <<"-inf">>)
    ELSE LET g == Gcd(Abs(x[1]), Abs(y[1]))
             sign == IF y[1] < 0 THEN -1 ELSE 1
         IN  <<(sign * x[1]) \div g, (sign * y[1]) \div g>>

\* q - 1 for a quotient q
MinusOne(q) ==
    IF IsNull(q) \/ q \in {<<"inf">>, <<"-inf">>} THEN q ELSE <<q[1] - q[2], q[2]>>

\* the be column without the second assign, so that a value <= 0 stays
BookEquityUnchecked(x) ==
    Sub(Add(CombineFirst(CombineFirst(x.seq, Add(x.ceq, x.pstk)), Sub(x.at, x.lt)),
            Fillna(CombineFirst(x.txditc, Add(x.txdb, x.itcb)), 0)),
        Fillna(CombineFirst(CombineFirst(x.pstkrv, x.pstkl), x.pstk), 0))

\* the be column of add_be_and_op_columns (both assigns)
BookEquity(x) ==
    LET be == Sub(Add(CombineFirst(CombineFirst(x.seq, Add(x.ceq, x.pstk)),
                                   Sub(x.at, x.lt)),
                      Fillna(CombineFirst(x.txditc, Add(x.txdb, x.itcb)), 0)),
                  Fillna(CombineFirst(CombineFirst(x.pstkrv, x.pstkl), x.pstk), 0))
    IN  IF NotNull(be) /\ be[1] <= 0 THEN NaN ELSE be

\* the op column without fillna(0) on cogs
OperatingProfitabilityNoFill(x, be) ==
    Div(Sub(Sub(Sub(x.sale, x.cogs), Fillna(x.xsga, 0)), Fillna(x.xint, 0)), be)

\* the op column of add_be_and_op_columns
OperatingProfitability(x, be) ==
    Div(Sub(Sub(Sub(x.sale, Fillna(x.cogs, 0)), Fillna(x.xsga, 0)), Fillna(x.xint, 0)),
        be)

\* a datadate <<month, day>> as a number that orders the dates
DateKey(datadate) == 100 * datadate[1] + datadate[2]

\* the orders sort_values("datadate") may leave the rows in: the default
\* quicksort is not stable, rows with equal datadate come in any order
SortedByDatadate(s) ==
    {[k \in DOMAIN s |-> s[perm[k]]] :
        perm \in {f \in [DOMAIN s -> DOMAIN s] :
                     /\ \A i, j \in DOMAIN s : i # j => f[i] # f[j]
                     /\ \A i, j \in DOMAIN s :
                            i < j => DateKey(s[f[i]].datadate) <= DateKey(s[f[j]].datadate)}}

\* groupby(["gvkey", "year"]).tail(1): the last row of every group, the rows
\* staying in frame order
TailOfGroups(s) ==
    SelectSeq([i \in DOMAIN s |-> [row |-> s[i], index |-> i]],
              LAMBDA x : ~\E j \in DOMAIN s : /\ j > x.index
                                              /\ s[j].gvkey = x.row.gvkey
                                              /\ s[j].year = x.row.year)

\* Compustat.add_be_and_op_columns
AddBeAndOpColumns ==
    /\ pc = "compustat_raw"
    /\ \E with_be_op \in {[i \in DOMAIN compustat_df |->
                compustat_df[i] @@
                    [be |-> BookEquity(compustat_df[i]),
                     op |-> OperatingProfitability(compustat_df[i],
                                                   BookEquity(compustat_df[i])),
                     year |-> YearOf(ToMonth(compustat_df[i].datadate))]]} :
           \E sorted \in SortedByDatadate(with_be_op) :
               \E kept \in {TailOfGroups(sorted)} :
                   compustat_df' = [i \in DOMAIN kept |-> kept[i].row]
    /\ pc' = "be_op"
    /\ UNCHANGED <<funda, dateVars, fetchVars, panelVars, assembleVars>>
    /\ UNCHANGED otherVars

\* the inv column with the lagged frame one year too early (year - 1)
InvestmentOfNextYear(x, frame) ==
    LET matches == SelectSeq(frame, LAMBDA l : l.gvkey = x.gvkey /\ l.year - 1 = x.year)
        inv(at_lag) == IF NotNull(at_lag) /\ at_lag[1] <= 0 THEN NaN
                       ELSE MinusOne(Div(x.at, at_lag))
    IN  IF matches = <<>> THEN <<x @@ [at_lag |-> NaN, inv |-> NaN]>>
        ELSE [k \in DOMAIN matches |->
                 x @@ [at_lag |-> matches[k].at, inv |-> inv(matches[k].at)]]

\* one row of add_inv_column: the left merge with the frame shifted one year
\* on, inv = at / at_lag - 1, and NaN where at_lag <= 0
Investment(x, frame) ==
    LET matches == SelectSeq(frame, LAMBDA l : l.gvkey = x.gvkey /\ l.year + 1 = x.year)
        inv(at_lag) == IF NotNull(at_lag) /\ at_lag[1] <= 0 THEN NaN
                       ELSE MinusOne(Div(x.at, at_lag))
    IN  IF matches = <<>> THEN <<x @@ [at_lag |-> NaN, inv |-> NaN]>>
        ELSE [k \in DOMAIN matches |->
                 x @@ [at_lag |-> matches[k].at, inv |-> inv(matches[k].at)]]

\* Compustat.add_inv_column
AddInvColumn ==
    /\ pc = "be_op"
    /\ compustat_df' = Concat([i \in DOMAIN compustat_df |->
                                  Investment(compustat_df[i], compustat_df)])
    /\ pc' = "inv"
    /\ UNCHANGED <<funda, dateVars, fetchVars, panelVars, assembleVars>>
    /\ UNCHANGED otherVars

\* the last two lines of Compustat.set_data: the desired columns
SelectDesiredColumns ==
    /\ pc = "inv"
    /\ compustat_df' = [i \in DOMAIN compustat_df |->
                           [c \in {"gvkey", "datadate", "year", "be", "op", "inv"} |->
                               compustat_df[i][c]]]
    /\ pc' = "compustat_done"
    /\ UNCHANGED <<funda, dateVars, fetchVars, panelVars, assembleVars>>
    /\ UNCHANGED otherVars

-----------------------------------------------------------------------------
(* Compustat fundamentals: inputs                                          *)

MaxFunda == 3

\* a row of the annual query with no amount reported
FundaRecord(g, datadate) ==
    [gvkey |-> <<g>>, datadate |-> datadate,
     seq |-> NaN, ceq |-> NaN, at |-> NaN, lt |-> NaN, txditc |-> NaN,
     txdb |-> NaN, itcb |-> NaN, pstkrv |-> NaN, pstkl |-> NaN, pstk |-> NaN,
     sale |-> NaN, cogs |-> NaN, xint |-> NaN, xsga |-> NaN]

\* fiscal year ends: two in year 1, one in year 2, one in year 4
FiscalDates == {<<3, 31>>, <<14, 31>>, <<15, 31>>, <<39, 31>>}

\* the rows of entity g1 in fetch order; seq tells the rows apart
FirmYearRows(dates, assets) ==
    [i \in DOMAIN dates |->
        [FundaRecord("g1", dates[i]) EXCEPT !.seq = <<i>>, !.sale = <<6>>,
                                            !.at = assets[i]]]

\* a row of another entity in year 1
OtherEntityRow ==
    [FundaRecord("g2", <<14, 31>>) EXCEPT !.seq = <<9>>, !.sale = <<6>>, !.at = <<1>>]

\* the total assets of n rows: at most one of them missing or zero
AssetsOfRows(n) ==
    {assets \in [1..n -> {NaN, <<0>>, <<1>>, <<2>>}] :
        Cardinality({i \in 1..n : assets[i] \in {NaN, <<0>>}}) <= 1}

\* a single row with every combination of reported amounts behind book equity
BookEquityTables ==
    {<<[FundaRecord("g1", <<14, 31>>) EXCEPT
          !.seq = seq, !.ceq = ceq, !.pstk = pstk, !.at = at, !.lt = lt,
          !.txditc = txditc, !.txdb = txdb, !.itcb = itcb, !.pstkrv = pstkrv,
          !.pstkl = pstkl, !.sale = <<6>>]>> :
        seq \in {NaN, <<3>>}, ceq \in {NaN, <<1>>}, pstk \in {NaN, <<2>>},
        at \in {NaN, <<6>>}, lt \in {NaN, <<4>>}, txditc \in {NaN, <<1>>},
        txdb \in {NaN, <<2>>}, itcb \in {NaN, <<1>>}, pstkrv \in {NaN, <<4>>},
        pstkl \in {NaN, <<3>>}}

\* a single row with every combination of reported amounts behind op
ProfitabilityTables ==
    {<<[FundaRecord("g1", <<14, 31>>) EXCEPT
          !.seq = seq, !.pstkrv = pstkrv, !.sale = sale, !.cogs = cogs,
          !.xsga = xsga, !.xint = xint]>> :
        seq \in {NaN, <<3>>}, pstkrv \in {NaN, <<1>>, <<3>>},
        sale \in {NaN, <<6>>, <<1>>}, cogs \in {NaN, <<1>>},
        xsga \in {NaN, <<2>>}, xint \in {NaN, <<4>>}}

\* a valid date pair, as _main.run passes it
ValidCall(entry) ==
    [entry |-> entry,
     start_date |-> [type |-> "str",
                     value |-> <<"2", "0", "2", "1", "-", "0", "1", "-", "0", "1">>],
     final_date |-> [type |-> "str",
                     value |-> <<"2", "0", "2", "3", "-", "1", "2", "-", "3", "1">>]]

\* the fetched table: up to MaxFunda rows of one entity, a shorter one followed
\* by a row of another entity, or a single row of the tables above
InitCompustat ==
    \E n \in 0..MaxFunda :
      \E extra \in IF n < MaxFunda THEN {<<>>, <<OtherEntityRow>>} ELSE {<<>>} :
        /\ \/ \E dates \in [1..n -> FiscalDates], assets \in AssetsOfRows(n) :
                  funda = FirmYearRows(dates, assets) \o extra
           \/ n = 1 /\ extra = <<>> /\ funda \in BookEquityTables
           \/ n = 1 /\ extra = <<>> /\ funda \in ProfitabilityTables
        /\ compustat_df = None
        /\ call = ValidCall("Compustat.set_data")
        /\ outcome = None
        /\ pc = "call"
        /\ df = <<>>
        /\ factors = <<>>
        /\ thresholds = NoThresholds
        /\ links = <<>>
        /\ crsp = <<>>
        /\ compustat = <<>>
        /\ lag = 0
        /\ characteristics = <<>>
        /\ data_fama_macbeth = <<>>
        /\ data = <<>>
        /\ NoFetch /\ NoOther

NextCompustat ==
    \/ CompustatSetRawData
    \/ AddBeAndOpColumns
    \/ AddInvColumn
    \/ SelectDesiredColumns

SpecCompustat == InitCompustat /\ [][NextCompustat]_vars

-----------------------------------------------------------------------------
(* Compustat fundamentals: properties                                      *)

\* fetched rows of the (gvkey, year) group of fetched row i
GroupOfFetched(i) ==
    {j \in DOMAIN funda :
        /\ funda[j].gvkey = funda[i].gvkey
        /\ YearOf(ToMonth(funda[j].datadate)) = YearOf(ToMonth(funda[i].datadate))}

\* the fetched row of the group with the latest datadate, the later one in
\* fetch order among equal dates
LatestOfGroup(i) ==
    CHOOSE w \in GroupOfFetched(i) :
        \A j \in GroupOfFetched(i) :
            \/ DateKey(funda[j].datadate) < DateKey(funda[w].datadate)
            \/ DateKey(funda[j].datadate) = DateKey(funda[w].datadate) /\ j <= w

\* rows of Compustat.df with the key of fetched row i
RowsOfGroup(i) ==
    {k \in DOMAIN compustat_df :
        /\ compustat_df[k].gvkey = funda[i].gvkey
        /\ compustat_df[k].year = YearOf(ToMonth(funda[i].datadate))}

\* C11: after the processing every (gvkey, year) of the fetched rows has
\* exactly one row, and it is the fetched row with the latest datadate, the
\* later one in fetch order when the dates are equal
C11_LatestRecordPerFirmYear ==
    pc \in {"be_op", "inv"} =>
        /\ \A k \in DOMAIN compustat_df : \E i \in DOMAIN funda : k \in RowsOfGroup(i)
        /\ \A i \in DOMAIN funda :
               /\ Cardinality(RowsOfGroup(i)) = 1
               /\ \A k \in RowsOfGroup(i) :
                      /\ compustat_df[k].datadate = funda[LatestOfGroup(i)].datadate
                      /\ compustat_df[k].seq = funda[LatestOfGroup(i)].seq
                      /\ compustat_df[k].at = funda[LatestOfGroup(i)].at

\* rows of Compustat.df of the entity of row x in the calendar year before
PreviousYearRows(x) ==
    {k \in DOMAIN compustat_df :
        /\ compustat_df[k].gvkey = x.gvkey
        /\ compustat_df[k].year = x.year - 1}

\* C12: inv is at / at(previous year) - 1 over the row of the same entity in
\* exactly the previous calendar year, undefined when that row is absent or
\* its at is missing or <= 0; the step keeps one row per (gvkey, year)
C12_InvestmentOverPreviousYear ==
    pc = "inv" =>
        /\ \A i \in DOMAIN funda : Cardinality(RowsOfGroup(i)) = 1
        /\ \A k \in DOMAIN compustat_df : \E i \in DOMAIN funda : k \in RowsOfGroup(i)
        /\ \A k \in DOMAIN compustat_df :
               LET x == compustat_df[k]
               IN  IF PreviousYearRows(x) = {} THEN IsNull(x.inv)
                   ELSE \A l \in PreviousYearRows(x) :
                            LET at_lag == compustat_df[l].at
                            IN  IF IsNull(at_lag) \/ IsNull(x.at) THEN IsNull(x.inv)
                                ELSE IF at_lag[1] <= 0 THEN IsNull(x.inv)
                                ELSE /\ Len(x.inv) = 2
                                     /\ x.inv[2] > 0
                                     /\ x.inv[1] * at_lag[1]
                                            = x.inv[2] * (x.at[1] - at_lag[1])

\* C12 witness: an entity with rows in years 1, 2 and 4: growth 1 in year 2,
\* no investment in year 4 (a gap year) nor in its first year
C12_Witness ==
    /\ pc = "inv"
    /\ \E a, b, c \in DOMAIN compustat_df :
           /\ compustat_df[a].gvkey = compustat_df[b].gvkey
           /\ compustat_df[b].gvkey = compustat_df[c].gvkey
           /\ compustat_df[a].year = 1 /\ IsNull(compustat_df[a].inv)
           /\ compustat_df[b].year = 2 /\ compustat_df[b].inv = <<1, 1>>
           /\ compustat_df[c].year = 4 /\ IsNull(compustat_df[c].inv)
           /\ NotNull(compustat_df[c].at)

\* the first defined value of a sequence of alternatives, NaN if none is
FirstAvailable(alternatives) ==
    IF \A i \in DOMAIN alternatives : IsNull(alternatives[i]) THEN NaN
    ELSE alternatives[CHOOSE i \in DOMAIN alternatives :
                          /\ NotNull(alternatives[i])
                          /\ \A j \in 1..(i - 1) : IsNull(alternatives[j])]

\* the sum of two amounts, available when both are
BothOf(x, y) == IF NotNull(x) /\ NotNull(y) THEN <<x[1] + y[1]>> ELSE NaN

\* the difference of two amounts, available when both are
Less(x, y) == IF NotNull(x) /\ NotNull(y) THEN <<x[1] - y[1]>> ELSE NaN

\* C13: be is equity + deferred taxes - preferred stock over the first
\* available alternatives, undefined without an equity alternative and when
\* the result is <= 0; so be is undefined or strictly positive
C13_BookEquity ==
    pc = "be_op" =>
        \A k \in DOMAIN compustat_df :
            LET x == compustat_df[k]
                equity == FirstAvailable(<<x.seq, BothOf(x.ceq, x.pstk), Less(x.at, x.lt)>>)
                deferred == FirstAvailable(<<x.txditc, BothOf(x.txdb, x.itcb), <<0>>>>)
                preferred == FirstAvailable(<<x.pstkrv, x.pstkl, x.pstk, <<0>>>>)
            IN  /\ IsNull(x.be) \/ x.be[1] > 0
                /\ IsNull(equity) => IsNull(x.be)
                /\ NotNull(equity) =>
                       IF equity[1] + deferred[1] - preferred[1] <= 0 THEN IsNull(x.be)
                       ELSE x.be = <<equity[1] + deferred[1] - preferred[1]>>

\* C13 witness: book equity taken from assets less liabilities, with deferred
\* taxes from their second alternative and preferred stock at redemption value
C13_Witness ==
    /\ pc = "be_op"
    /\ \E k \in DOMAIN compustat_df :
           LET x == compustat_df[k]
           IN  /\ IsNull(x.seq) /\ IsNull(x.ceq) /\ NotNull(x.pstk)
               /\ IsNull(x.txditc) /\ NotNull(x.txdb) /\ NotNull(x.itcb)
               /\ NotNull(x.pstkrv) /\ NotNull(x.pstkl)
               /\ x.be = <<1>>

\* C14: op is undefined with be, and otherwise is
\* (sale - cogs - xsga - xint) / be with a missing cogs, xsga or xint counted
\* as 0; it is never an infinity
C14_OperatingProfitability ==
    pc = "be_op" =>
        \A k \in DOMAIN compustat_df :
            LET x == compustat_df[k]
                costs == Fillna(x.cogs, 0)[1] + Fillna(x.xsga, 0)[1] + Fillna(x.xint, 0)[1]
            IN  /\ x.op \notin {<<"inf">>, <<"-inf">>}
                /\ IsNull(x.be) => IsNull(x.op)
                /\ NotNull(x.be) =>
                       IF IsNull(x.sale) THEN IsNull(x.op)
                       ELSE /\ Len(x.op) = 2
                            /\ x.op[2] > 0
                            /\ x.op[1] * x.be[1] = x.op[2] * (x.sale[1] - costs)

\* C14 witness: a negative profitability with cogs missing and interest
\* reported, over a book equity net of preferred stock
C14_Witness ==
    /\ pc = "be_op"
    /\ \E k \in DOMAIN compustat_df :
           LET x == compustat_df[k]
           IN  /\ x.be = <<2>>
               /\ IsNull(x.cogs) /\ NotNull(x.xsga) /\ NotNull(x.xint)
               /\ x.op = <<-5, 2>>

-----------------------------------------------------------------------------
(* CRSP.set_data from the fetched rows to the linked panel                  *)

MaxMonthPanel == 3

MonthsPanel == 1..MaxMonthPanel

\* what the monthly query returns for security 1 in a month
RowKinds == {"good", "noshares", "zeroprice", "noret", "absent"}

\* the fetched monthly rows (by month, then security): security 1 as its kind
\* of the month says, security 2 complete in every month
MonthlyRows(kinds) ==
    Concat([m \in MonthsPanel |->
              (IF kinds[m] = "absent" THEN <<>>
               ELSE <<[permno |-> 1, date |-> m, primaryexch |-> "Q",
                       ret |-> IF kinds[m] = "noret" THEN NaN ELSE <<3>>,
                       shrout |-> IF kinds[m] = "noshares" THEN NaN ELSE <<2>>,
                       altprc |-> IF kinds[m] = "zeroprice" THEN <<0>> ELSE <<1000>>]>>)
              \o <<[permno |-> 2, date |-> m, primaryexch |-> "N",
                    ret |-> <<1>>, shrout |-> <<3>>, altprc |-> <<-2000>>]>>])

\* daily rows of both securities on the first two days of the first month
FewDailyRows ==
    Concat([d \in 1..2 |-> <<[permno |-> 1, date |-> d, ret |-> <<1>>],
                             [permno |-> 2, date |-> d, ret |-> <<0>>]>>])

InitPanel ==
    \E kinds \in [MonthsPanel -> RowKinds], norf \in 0..MaxMonthPanel,
       daily \in {<<>>, FewDailyRows} :
        /\ msf = MonthlyRows(kinds)
        /\ factors = [m \in MonthsPanel |-> IF m = norf THEN NaN ELSE <<1>>]
        /\ dsf = daily
        /\ factors_daily = [d \in 1..(MaxMonthPanel * DaysPerMonth) |-> <<0>>]
        /\ df_daily = <<>>
        /\ links = <<[permno |-> 1, gvkey |-> <<"g1">>, linkdt |-> 1,
                      linkenddt |-> MaxMonthPanel + 1]>>
        /\ df = None
        /\ call = ValidCall("CRSP.set_data")
        /\ outcome = None
        /\ pc = "call"
        /\ thresholds = NoThresholds
        /\ crsp = <<>>
        /\ compustat = <<>>
        /\ lag = 0
        /\ characteristics = <<>>
        /\ data_fama_macbeth = <<>>
        /\ data = <<>>
        /\ NoFundamentals /\ NoOther

NextPanel ==
    \/ CrspSetRawData
    \/ CreateMarketCapColumn
    \/ CreateExcessReturnColumn
    \/ CreateMomentumColumn
    \/ CreateVolatilityColumn
    \/ ClassifyForSize
    \/ GetCompustatMergeLinks

SpecPanel == InitPanel /\ [][NextPanel]_vars

\* the fetched rows that must not reach the panel
Unusable(x) ==
    \/ IsNull(x.ret)
    \/ IsNull(x.shrout) \/ IsNull(x.altprc)
    \/ x.shrout[1] * x.altprc[1] = 0
    \/ IsNull(factors[x.date])

\* C16: from create_excess_return_column on, every row of the panel has a
\* defined non-zero mktcap and ret_excess = ret - rf of its month, and no
\* fetched row with zero or undefined market cap, undefined return or no
\* factor row of its month is in the panel
C16_PanelRowsDefined ==
    pc \in {"excess", "momentum", "volatility", "error", "size", "linked"} =>
        /\ \A i \in DOMAIN df :
               /\ NotNull(df[i].mktcap) /\ df[i].mktcap[1] # 0
               /\ NotNull(df[i].ret_excess)
               /\ NotNull(df[i].ret) /\ NotNull(factors[df[i].date])
               /\ df[i].ret_excess[1] = df[i].ret[1] - factors[df[i].date][1]
               /\ \E j \in DOMAIN msf : /\ msf[j].permno = df[i].permno
                                        /\ msf[j].date = df[i].date
                                        /\ msf[j].ret = df[i].ret
        /\ \A j \in DOMAIN msf :
               Unusable(msf[j]) =>
                   ~\E i \in DOMAIN df : /\ df[i].permno = msf[j].permno
                                         /\ df[i].date = msf[j].date

\* C16 witness: the linked panel holds a row of security 1 with excess return
\* 2 while rows of it with a zero price, no return and no factor row were fetched
C16_Witness ==
    /\ pc = "linked"
    /\ \E i \in DOMAIN df : /\ df[i].permno = 1
                            /\ df[i].ret_excess = <<2>>
                            /\ df[i].mktcap = <<2>>
                            /\ NotNull(df[i].gvkey)
    /\ \E j \in DOMAIN msf : msf[j].permno = 1 /\ msf[j].altprc = <<0>>
    /\ \E j \in DOMAIN msf : msf[j].permno = 2 /\ IsNull(factors[msf[j].date])
    /\ Len(df) < Len(msf)

-----------------------------------------------------------------------------
(* Date-pair entry points: inputs and properties                           *)

\* the fields of the date strings: a year, a month and a day as written
YearFields == {<<"2", "0", "2", "1">>, <<"2", "1">>, <<"0", "0", "0", "0">>}

MonthFields == {<<"0", "1">>, <<"0", "2">>, <<"2">>, <<"1", "3">>}

DayFields == {<<"0", "1">>, <<"0", "2">>, <<"3">>, <<" ", "3">>, <<"3", "0">>}

\* strings in and out of the format 'YYYY-MM-DD', the empty string among them
DateStrings ==
    {y \o <<sep>> \o m \o <<sep>> \o d \o rest :
        y \in YearFields, m \in MonthFields, d \in DayFields, sep \in {"-", "/"},
        rest \in {<<>>, <<" ">>}}
    \cup {<<>>}

\* values a caller may pass as a date: datetimes, strings and other objects
DateValues ==
    {[type |-> "datetime", value |-> v] :
        v \in {<<2021, 1, 2>>, <<2021, 2, 1>>, <<2020, 12, 31>>}}
    \cup {[type |-> "str", value |-> v] : v \in DateStrings}
    \cup {[type |-> "int", value |-> 20210101], [type |-> "date", value |-> <<2021, 1, 2>>],
          None}

\* the other date of the pair
PlainDateValues ==
    {[type |-> "datetime", value |-> <<2021, 1, 2>>],
     [type |-> "str", value |-> <<"2", "0", "2", "1", "-", "0", "2", "-", "0", "1">>],
     [type |-> "str", value |-> <<"2", "0", "2", "1", "/", "0", "1", "/", "0", "1">>],
     [type |-> "int", value |-> 20210101]}

EntryPoints ==
    {"CPI", "QFactors", "MacroPredictors", "FamaFrench.get_data", "Compustat.set_data",
     "CRSP.set_data"}

\* a fresh object and one call of an entry point with a pair of date values
InitDates ==
    \E entry \in EntryPoints, rich \in DateValues, plain \in PlainDateValues,
       swap \in BOOLEAN :
        /\ call = [entry |-> entry,
                   start_date |-> IF swap THEN plain ELSE rich,
                   final_date |-> IF swap THEN rich ELSE plain]
        /\ outcome = None
        /\ pc = "call"
        /\ funda = <<OtherEntityRow>>
        /\ compustat_df = None
        /\ msf = MonthlyRows([m \in MonthsPanel |-> "good"])
        /\ dsf = <<>>
        /\ factors_daily = <<>>
        /\ df_daily = <<>>
        /\ df = None
        /\ factors = <<>>
        /\ thresholds = NoThresholds
        /\ links = <<>>
        /\ crsp = <<>>
        /\ compustat = <<>>
        /\ lag = 0
        /\ characteristics = <<>>
        /\ data_fama_macbeth = <<>>
        /\ data = <<>>
        /\ NoOther

NextDates ==
    \/ CpiInit
    \/ QFactorsInit
    \/ MacroPredictorsInit
    \/ FamaFrenchGetData
    \/ CompustatSetRawData
    \/ CrspSetRawData

SpecDates == InitDates /\ [][NextDates]_vars

\* a string written as 'YYYY-MM-DD' that names a day of the calendar
IsIsoDate(s) ==
    /\ Len(s) = 10
    /\ s[5] = "-" /\ s[8] = "-"
    /\ \A i \in {1, 2, 3, 4, 6, 7, 9, 10} : s[i] \in Digits
    /\ ToNumber(SubSeq(s, 1, 4)) >= 1
    /\ ToNumber(SubSeq(s, 6, 7)) \in 1..12
    /\ ToNumber(SubSeq(s, 9, 10)) >= 1
    /\ ToNumber(SubSeq(s, 9, 10))
           <= DaysInMonth(ToNumber(SubSeq(s, 1, 4)), ToNumber(SubSeq(s, 6, 7)))

\* a date value of the documented kinds: a datetime or a 'YYYY-MM-DD' string
WellFormed(v) == v.type = "datetime" \/ (v.type = "str" /\ IsIsoDate(v.value))

\* the datetime a well-formed date value stands for
Denoted(v) ==
    IF v.type = "datetime" THEN v.value
    ELSE <<ToNumber(SubSeq(v.value, 1, 4)), ToNumber(SubSeq(v.value, 6, 7)),
           ToNumber(SubSeq(v.value, 9, 10))>>

\* C19: at every entry point a well-formed pair with start <= end is accepted
\* and its two dates are kept; a pair with end < start raises before anything
\* is queried and leaves the df of the object unset
C19_DatePairAcceptedOrRejected ==
    (pc # "call" /\ WellFormed(call.start_date) /\ WellFormed(call.final_date)) =>
        IF DateLess(Denoted(call.final_date), Denoted(call.start_date))
        THEN /\ pc = "raised"
             /\ NotNull(outcome.error)
             /\ outcome.error[1].type = "ValueError"
             /\ ~outcome.queried
             /\ compustat_df = None
             /\ df = None
        ELSE /\ pc # "raised"
             /\ IsNull(outcome.error)
             /\ outcome.start_date = <<Denoted(call.start_date)>>
             /\ outcome.final_date = <<Denoted(call.final_date)>>

\* C19 witness: Compustat.set_data has taken a range of a single day, given as
\* a string and a datetime, and has fetched its rows
C19_Witness ==
    /\ pc = "compustat_raw"
    /\ call.start_date.type = "str"
    /\ call.final_date.type = "datetime"
    /\ outcome.start_date = outcome.final_date
    /\ outcome.start_date = <<<<2021, 1, 2>>>>
    /\ outcome.queried
    /\ compustat_df = funda

\* the conversion of one date value as documented: a datetime as it is, a
\* 'YYYY-MM-DD' string as its date, ValueError for another string, TypeError
\* for another object, the exception naming the parameter
DocumentedConversion(v, param_name) ==
    IF v.type = "datetime" THEN [value |-> <<v.value>>, error |-> NaN]
    ELSE IF v.type = "str"
    THEN IF IsIsoDate(v.value) THEN [value |-> <<Denoted(v)>>, error |-> NaN]
         ELSE [value |-> NaN, error |-> <<Raised("ValueError", "format", param_name)>>]
    ELSE [value |-> NaN, error |-> <<Raised("TypeError", "type", param_name)>>]

\* C20: convert_to_datetime returns a datetime unchanged and a 'YYYY-MM-DD'
\* string as its date, raises ValueError for any other string and TypeError
\* for any other object, naming its parameter; start_date is converted first
C20_ConvertToDatetime ==
    pc # "call" =>
        LET s == DocumentedConversion(call.start_date, "start_date")
            f == DocumentedConversion(call.final_date, "final_date")
        IN  IF NotNull(s.error) THEN outcome.error = s.error
            ELSE IF NotNull(f.error) THEN outcome.error = f.error
            ELSE \/ /\ IsNull(outcome.error)
                    /\ outcome.start_date = s.value
                    /\ outcome.final_date = f.value
                 \/ /\ NotNull(outcome.error)
                    /\ outcome.error[1].kind = "range"

-----------------------------------------------------------------------------
(* FamaMacbeth.prepare_data                                                *)

MaxOf(S) == CHOOSE x \in S : \A y \in S : y <= x

\* the offset taken the wrong way, date - pd.DateOffset(months = n)
AddMonthsBackward(date, n) == date - n

\* date + pd.DateOffset(months = n)
AddMonths(date, n) == date + n

\* characteristics: compustat left-merged with crsp on (gvkey, date), then
\* log_bm, log_mktcap and sorting_date, columns of line 50
Characteristics(compustat_data, crsp_data, month_lag) ==
    Concat([i \in DOMAIN compustat_data |->
        LET c == compustat_data[i]
            date == ToMonth(c.datadate)
            matches == SelectSeq(crsp_data,
                                 LAMBDA r : r.gvkey = c.gvkey /\ r.date = date)
            out(mktcap) ==
                [gvkey |-> c.gvkey,
                 log_bm |-> IF NotNull(c.be) /\ NotNull(mktcap) /\ c.be[1] > 0
                            THEN Log(c.be[1], mktcap[1]) ELSE NaN,
                 log_mktcap |-> IF NotNull(mktcap) THEN Log(mktcap[1], 1) ELSE NaN,
                 sorting_date |-> AddMonths(date, month_lag),
                 op |-> c.op, inv |-> c.inv]
        IN  IF matches = <<>> THEN <<out(NaN)>>
            ELSE [k \in DOMAIN matches |-> out(matches[k].mktcap)]])

\* the merge with log_mktcap computed from the market cap of the crsp row itself
MergeCharacteristicsOwnCap(crsp_data, chars) ==
    Concat([i \in DOMAIN crsp_data |->
        LET r == crsp_data[i]
            matches == SelectSeq(chars, LAMBDA ch : /\ ch.gvkey = r.gvkey
                                                    /\ ch.sorting_date = r.date)
            own == [log_mktcap |-> Log(r.mktcap[1], 1)]
        IN  IF matches = <<>>
            THEN <<r @@ own @@ [log_bm |-> NaN, sorting_date |-> NaN,
                                op |-> NaN, inv |-> NaN]>>
            ELSE [k \in DOMAIN matches |->
                     r @@ own @@ [log_bm |-> matches[k].log_bm,
                                  sorting_date |-> <<matches[k].sorting_date>>,
                                  op |-> matches[k].op, inv |-> matches[k].inv]]])

\* crsp_data.merge(characteristics, how="left", left_on=[gvkey, date],
\*                 right_on=[gvkey, sorting_date])
MergeCharacteristics(crsp_data, chars) ==
    Concat([i \in DOMAIN crsp_data |->
        LET r == crsp_data[i]
            matches == SelectSeq(chars, LAMBDA ch : /\ ch.gvkey = r.gvkey
                                                    /\ ch.sorting_date = r.date)
        IN  IF matches = <<>>
            THEN <<r @@ [log_bm |-> NaN, log_mktcap |-> NaN, sorting_date |-> NaN,
                         op |-> NaN, inv |-> NaN]>>
            ELSE [k \in DOMAIN matches |->
                     r @@ [log_bm |-> matches[k].log_bm,
                           log_mktcap |-> matches[k].log_mktcap,
                           sorting_date |-> <<matches[k].sorting_date>>,
                           op |-> matches[k].op, inv |-> matches[k].inv]]])

\* fillna(method="ffill") over the whole sorted frame, without the groupby
FfillAtUngrouped(s, j, col) ==
    LET valid == {k \in 1..j : NotNull(s[k][col])}
    IN  IF valid = {} THEN NaN ELSE s[MaxOf(valid)][col]

\* groupby("permno") ... fillna(method="ffill"): the last valid value of the
\* column at or before position j among the rows of the same permno
FfillAt(s, j, col) ==
    LET valid == {k \in 1..j : s[k].permno = s[j].permno /\ NotNull(s[k][col])}
    IN  IF valid = {} THEN NaN ELSE s[MaxOf(valid)][col]

\* sort_values(["date", "permno"]).groupby("permno").apply(ffill of the four
\* columns).reset_index(drop=True): groups come back in permno order
FillForward(merged) ==
    LET sorted == SortValues(merged, <<"date", "permno">>)
        filled == [j \in DOMAIN sorted |->
                     [sorted[j] EXCEPT !.log_bm = FfillAt(sorted, j, "log_bm"),
                                       !.op = FfillAt(sorted, j, "op"),
                                       !.inv = FfillAt(sorted, j, "inv"),
                                       !.log_mktcap = FfillAt(sorted, j, "log_mktcap")]]
    IN  SortValues(filled, <<"permno", "date">>)

\* the lead shifted the wrong way, date + pd.DateOffset(months=1)
LeadDateForward(date) == date + 1

\* date - pd.DateOffset(months=1) of data_fama_macbeth_lagged
LeadDate(date) == date - 1

\* data_fama_macbeth.merge(data_fama_macbeth_lagged, how="left",
\*                         on=["permno", "date"])
AttachLead(frame) ==
    LET lagged == [i \in DOMAIN frame |->
                     [permno |-> frame[i].permno, date |-> LeadDate(frame[i].date),
                      ret_excess_lead |-> frame[i].ret_excess]]
    IN  Concat([i \in DOMAIN frame |->
            LET matches == SelectSeq(lagged, LAMBDA l : /\ l.permno = frame[i].permno
                                                        /\ l.date = frame[i].date)
            IN  IF matches = <<>> THEN <<frame[i] @@ [ret_excess_lead |-> NaN]>>
                ELSE [k \in DOMAIN matches |->
                         frame[i] @@ [ret_excess_lead |-> matches[k].ret_excess_lead]]])

\* nullable columns of the .get([...]) of line 68
RequiredColumns ==
    {"size_category", "ret_excess_lead", "log_mktcap", "mktcap", "log_bm", "op",
     "inv", "ret_excess", "momentum", "volatility"}

\* .get([...]).dropna()
SelectAndDropNa(frame) ==
    LET selected == [i \in DOMAIN frame |->
                       [c \in RequiredColumns \cup {"permno", "date"} |-> frame[i][c]]]
    IN  SelectSeq(selected, LAMBDA r : \A c \in RequiredColumns : NotNull(r[c]))

\* Series.quantile(q100 / 100) scaled by 100, NaN on an empty series
Quantile100(vals, q100) ==
    IF vals = <<>> THEN NaN
    ELSE LET v == SortInts(vals)
             n == Len(v)
             lo == ((n - 1) * q100) \div 100
             f == ((n - 1) * q100) % 100
         IN  <<v[lo + 1] * (100 - f) + v[Min2(lo + 2, n)] * f>>

\* frame['date'].value_counts(): the number of rows of every date of the frame
DateCounts(frame) ==
    [d \in {r.date : r \in Range(frame)} |->
        Cardinality({i \in DOMAIN frame : frame[i].date = d})]

\* the dates kept when only counts above the quantile pass
ValidDatesAbove(frame, q100) ==
    LET date_counts == DateCounts(frame)
        dates == SetToSeq(DOMAIN date_counts)
        percentile_ == Quantile100([k \in DOMAIN dates |-> date_counts[dates[k]]], q100)
    IN  {d \in DOMAIN date_counts :
            NotNull(percentile_) /\ 100 * date_counts[d] > percentile_[1]}

\* valid_dates: date_counts[date_counts >= percentile_].index
ValidDates(frame, q100) ==
    LET date_counts == DateCounts(frame)
        dates == SetToSeq(DOMAIN date_counts)
        percentile_ == Quantile100([k \in DOMAIN dates |-> date_counts[dates[k]]], q100)
    IN  {d \in DOMAIN date_counts :
            NotNull(percentile_) /\ 100 * date_counts[d] >= percentile_[1]}

\* the two filters at the end of prepare_data, the percentile filter first
FilterTailAndSize(frame, percentile, size) ==
    LET kept == IF percentile = None THEN frame
                ELSE CHOOSE k \in {SelectSeq(frame, LAMBDA r : r.date \in valid_dates) :
                                     valid_dates \in {ValidDates(frame, percentile.value)}} :
                         TRUE
    IN  IF size = None THEN kept
        ELSE SelectSeq(kept, LAMBDA r : r.size_category = <<size.value>>)

\* FamaMacbeth.__init__: drop_tail_percentile is a float held in hundredths,
\* desired_size a str, both None when not given
FamaMacbethInit ==
    /\ pc = "call"
    /\ call.entry = "FamaMacbeth"
    /\ lag' = call.compustat_month_lag
    /\ drop_tail_percentile' = call.drop_tail_percentile
    /\ IF call.drop_tail_percentile # None /\ call.drop_tail_percentile.value >= 25
       THEN /\ outcome' = [error |-> <<Raised("ValueError", "range",
                                              "drop_tail_percentile")>>]
            /\ pc' = "raised"
            /\ UNCHANGED desired_size
       ELSE /\ outcome' = [error |-> NaN]
            /\ desired_size' = call.desired_size
            /\ pc' = "constructed"
    /\ UNCHANGED <<call, df, factors, thresholds, links, crsp, compustat,
                   characteristics, data_fama_macbeth, data>>
    /\ UNCHANGED <<compustatVars, fetchVars, storeVars, httpsVars, batching>>

\* FamaMacbeth.prepare_data
PrepareData ==
    /\ pc = "constructed"
    /\ LET chars == Characteristics(compustat, crsp, lag)
           filled == FillForward(MergeCharacteristics(crsp, chars))
       IN  /\ characteristics' = chars
           /\ data_fama_macbeth' = filled
           /\ data' = FilterTailAndSize(SelectAndDropNa(AttachLead(filled)),
                                        drop_tail_percentile, desired_size)
    /\ pc' = "prepared"
    /\ UNCHANGED <<df, factors, thresholds, links, crsp, compustat, lag>>
    /\ UNCHANGED <<compustatVars, fetchVars, dateVars>>
    /\ UNCHANGED otherVars

-----------------------------------------------------------------------------
(* Panel assembly: inputs                                                  *)

MaxMonthAsm == 5

MaxFiscal == 3

MaxLag == 1

MonthsAsm == 1..MaxMonthAsm

\* an output row of Compustat.set_data: book equity is undefined or positive,
\* and op is undefined with it; the values tell the records apart
CompustatRecord(g, f, kind) ==
    [gvkey |-> <<g>>, datadate |-> <<f, 28>>, year |-> YearOf(f),
     be |-> IF kind = "nobe" THEN NaN ELSE <<f + 1>>,
     op |-> IF kind = "nobe" THEN NaN ELSE <<10 * f + (IF g = "g1" THEN 1 ELSE 2)>>,
     inv |-> IF kind = "noinv" THEN NaN ELSE <<20 * f + (IF g = "g1" THEN 1 ELSE 2)>>]

CompustatRecords ==
    {CompustatRecord(g, f, kind) :
        g \in {"g1", "g2"}, f \in 1..MaxFiscal, kind \in {"full", "nobe", "noinv"}}

\* position of a record in the table order (by datadate)
RecordRank(c) == 2 * c.datadate[1] + (IF c.gvkey = <<"g1">> THEN 0 ELSE 1)

\* tables "compustat": at most two records, in datadate order, one record per
\* (gvkey, year), at most one record with an undefined field
CompustatTables ==
    {t \in UNION {[1..n -> CompustatRecords] : n \in 0..2} :
        \A i, j \in DOMAIN t :
            i < j => /\ RecordRank(t[i]) < RecordRank(t[j])
                     /\ ~(t[i].gvkey = t[j].gvkey /\ t[i].year = t[j].year)
                     /\ \/ NotNull(t[i].be) /\ NotNull(t[i].inv)
                        \/ NotNull(t[j].be) /\ NotNull(t[j].inv)}

\* an output row of CRSP.set_data: market cap and excess return are defined
CrspRecord(p, g, d, nomom) ==
    [permno |-> p, gvkey |-> g, exchange |-> "NYSE", date |-> d,
     size_category |-> <<"Small">>, mktcap |-> <<2 * d + p>>,
     ret_excess |-> <<10 * p + d>>,
     momentum |-> IF nomom THEN NaN ELSE <<0>>, volatility |-> <<1>>]

\* table "crsp", sorted by (permno, date): security 1 misses month miss1;
\* shape "nomom" leaves it without momentum in month 1, shape "late" lists
\* security 2 from month 3 on
CrspTable(g1, g2, miss1, shape) ==
    Concat([m \in MonthsAsm |->
              IF m = miss1 THEN <<>>
              ELSE <<CrspRecord(1, g1, m, shape = "nomom" /\ m = 1)>>])
    \o Concat([m \in MonthsAsm |->
              IF shape = "late" /\ m < 3 THEN <<>> ELSE <<CrspRecord(2, g2, m, FALSE)>>])

\* gvkeys of securities 1 and 2: one entity, two entities, security 1 unlinked
LinkPatterns == {<<<<"g1">>, <<"g1">>>>, <<<<"g1">>, <<"g2">>>>, <<NaN, <<"g1">>>>}

InitAssemble ==
    \E g \in LinkPatterns, miss1 \in 0..MaxMonthAsm,
       shape \in {"plain", "nomom", "late"}, month_lag \in 0..MaxLag,
       table \in CompustatTables :
        /\ crsp = CrspTable(g[1], g[2], miss1, shape)
        /\ compustat = table
        /\ lag = month_lag
        /\ pc = "constructed"
        /\ df = <<>>
        /\ factors = <<>>
        /\ thresholds = NoThresholds
        /\ links = <<>>
        /\ characteristics = <<>>
        /\ data_fama_macbeth = <<>>
        /\ data = <<>>
        /\ NoFundamentals /\ NoFetch /\ NoCall /\ NoOther

NextAssemble == PrepareData

SpecAssemble == InitAssemble /\ [][NextAssemble]_vars

-----------------------------------------------------------------------------
(* Panel assembly: properties                                              *)

\* rows of table "crsp" for security p at month t
CrspAt(p, t) == {c \in Range(crsp) : c.permno = p /\ c.date = t}

\* fundamentals records of entity g whose effective month is at or before t
EffectiveRecords(g, t) ==
    {c \in Range(compustat) : c.gvkey = g /\ ToMonth(c.datadate) + lag <= t}

MostRecentRecord(g, t) ==
    CHOOSE c \in EffectiveRecords(g, t) :
        \A o \in EffectiveRecords(g, t) : ToMonth(o.datadate) <= ToMonth(c.datadate)

\* C1: every assembled row carries log_bm, op and inv of one record, the most
\* recent record of the linked entity that is effective at the row's period
C1_ValuesOfMostRecentRecord ==
    pc = "prepared" =>
        \A i \in DOMAIN data :
            \A c \in CrspAt(data[i].permno, data[i].date) :
                /\ EffectiveRecords(c.gvkey, c.date) # {}
                /\ LET rec == MostRecentRecord(c.gvkey, c.date)
                   IN  /\ data[i].op = rec.op
                       /\ data[i].inv = rec.inv
                       /\ \E ch \in Range(characteristics) :
                              /\ ch.gvkey = rec.gvkey
                              /\ ch.sorting_date = ToMonth(rec.datadate) + lag
                              /\ data[i].log_bm = ch.log_bm

\* a row of the filled frame whose required columns other than the forward
\* return are all defined
OthersDefined(f) == \A c \in RequiredColumns \ {"ret_excess_lead"} : NotNull(f[c])

\* C3: the assembled panel has no undefined required value, no (permno, date)
\* twice, and a row for every pair whose required fields are all defined
C3_OneCompleteRowPerPair ==
    pc = "prepared" =>
        /\ \A i \in DOMAIN data : \A c \in RequiredColumns : NotNull(data[i][c])
        /\ \A i, j \in DOMAIN data :
               (data[i].permno = data[j].permno /\ data[i].date = data[j].date) => i = j
        /\ \A f \in Range(data_fama_macbeth) :
               (OthersDefined(f) /\ CrspAt(f.permno, f.date + 1) # {}) =>
                   \E i \in DOMAIN data :
                       data[i].permno = f.permno /\ data[i].date = f.date

\* C9: an assembled row at t carries the excess return of the same security at
\* month t + 1; a row whose next month has no row of the security is dropped,
\* and a row whose next month exists is kept (its other fields being defined)
C9_ForwardReturn ==
    pc = "prepared" =>
        /\ \A i \in DOMAIN data :
               \E n \in CrspAt(data[i].permno, data[i].date + 1) :
                   data[i].ret_excess_lead = n.ret_excess
        /\ \A f \in Range(data_fama_macbeth) :
               IF CrspAt(f.permno, f.date + 1) = {}
               THEN \A i \in DOMAIN data :
                        ~(data[i].permno = f.permno /\ data[i].date = f.date)
               ELSE OthersDefined(f) =>
                        \E i \in DOMAIN data, n \in CrspAt(f.permno, f.date + 1) :
                            /\ data[i].ret_excess_lead = n.ret_excess
                            /\ \A c \in (RequiredColumns \ {"ret_excess_lead"})
                                         \cup {"permno", "date"} : data[i][c] = f[c]

\* C9 witness: a kept row with its forward return, a complete row just before
\* a missing month and the last row of the same security, both dropped
C9_Witness ==
    /\ pc = "prepared"
    /\ \E i \in DOMAIN data, f, l \in Range(data_fama_macbeth) :
           /\ f.permno = data[i].permno
           /\ l.permno = data[i].permno
           /\ data[i].ret_excess_lead = <<10 * data[i].permno + data[i].date + 1>>
           /\ OthersDefined(f)
           /\ CrspAt(f.permno, f.date + 1) = {}
           /\ CrspAt(f.permno, f.date + 2) # {}
           /\ OthersDefined(l)
           /\ l.date = MaxMonthAsm

FilledColumns == {"log_bm", "op", "inv", "log_mktcap"}

\* the frame before the forward fill
MergedFrame == MergeCharacteristics(crsp, characteristics)

\* months up to t at which a row of security p in frame has column col defined
DefinedMonths(frame, p, t, col) ==
    {m.date : m \in {x \in Range(frame) :
                        x.permno = p /\ x.date <= t /\ NotNull(x[col])}}

\* C10: after the forward fill each filled column of a row holds the value of
\* the latest row of the same security, at or before the row's period, where
\* the column was defined, and stays undefined when there is none
C10_FillWithinSecurity ==
    pc = "prepared" =>
        LET merged == MergedFrame
        IN  \A f \in Range(data_fama_macbeth) : \A col \in FilledColumns :
                LET months == DefinedMonths(merged, f.permno, f.date, col)
                IN  IF months = {} THEN IsNull(f[col])
                    ELSE \E m \in Range(merged) :
                             /\ m.permno = f.permno
                             /\ m.date = MaxOf(months)
                             /\ NotNull(m[col])
                             /\ f[col] = m[col]

\* C10 witness: a row without an update of its own carries the op of an
\* earlier row of its security although a row of another security with a
\* different op lies in between, and a row before the first update is undefined
C10_Witness ==
    /\ pc = "prepared"
    /\ \E f, o, e \in Range(data_fama_macbeth) :
           /\ IsNull(f.sorting_date)
           /\ NotNull(f.op)
           /\ o.permno # f.permno
           /\ NotNull(o.sorting_date)
           /\ o.date <= f.date
           /\ MaxOf(DefinedMonths(MergedFrame, f.permno, f.date, "op")) < o.date
           /\ NotNull(o.op)
           /\ o.op # f.op
           /\ e.permno = f.permno
           /\ IsNull(e.op)
           /\ e.date < f.date

\* fundamentals records behind a row of characteristics
RecordsOf(ch) ==
    {c \in Range(compustat) : /\ c.gvkey = ch.gvkey
                              /\ ToMonth(c.datadate) + lag = ch.sorting_date
                              /\ c.op = ch.op /\ c.inv = ch.inv}

\* C24: the log_bm of a fundamentals record is log(be / mktcap) with the market
\* cap of a security of the entity at the record's effective month (fiscal
\* month + lag), and is undefined when be is undefined or not positive
C24_MarketCapAtEffectiveMonth ==
    pc = "prepared" =>
        \A ch \in Range(characteristics) :
            \E c \in RecordsOf(ch) :
                IF IsNull(c.be) \/ c.be[1] <= 0 THEN IsNull(ch.log_bm)
                ELSE NotNull(ch.log_bm) =>
                        \E r \in Range(crsp) :
                            /\ r.gvkey = c.gvkey
                            /\ r.date = ch.sorting_date
                            /\ ch.log_bm = Log(c.be[1], r.mktcap[1])

AccountingColumns == {"log_bm", "op", "inv"}

\* the value of an accounting column that a fundamentals record gives rise to
ValuesOfRecord(c, col) ==
    IF col = "log_bm"
    THEN {ch.log_bm : ch \in {x \in Range(characteristics) : c \in RecordsOf(x)}}
    ELSE {c[col]}

\* C25: no look-ahead: every accounting value of an assembled row at month t
\* (and of a row of the filled frame) is that of a fundamentals record whose
\* fiscal month plus lag is at or before t
C25_NoLookAhead ==
    pc = "prepared" =>
        \A f \in Range(data) \cup Range(data_fama_macbeth) :
            \A col \in AccountingColumns :
                NotNull(f[col]) =>
                    \E c \in Range(compustat) :
                        /\ ToMonth(c.datadate) + lag <= f.date
                        /\ f[col] \in ValuesOfRecord(c, col)

\* C25 witness: with a lag of one month, an assembled row carries the values
\* of a record in the very month the record becomes effective, and the row of
\* the security at the record's fiscal month does not carry them
C25_Witness ==
    /\ pc = "prepared"
    /\ lag >= 1
    /\ \E i \in DOMAIN data, c \in Range(compustat) :
           /\ ToMonth(c.datadate) + lag = data[i].date
           /\ data[i].op = c.op
           /\ data[i].inv = c.inv
           /\ \E e \in Range(data_fama_macbeth) :
                  /\ e.permno = data[i].permno
                  /\ e.date = ToMonth(c.datadate)
                  /\ e.op # c.op

\* market caps joined to the fundamentals records that become effective for
\* the row f: those of the crsp rows of the entity at the fiscal month
JoinedCaps(f) ==
    {r.mktcap : r \in {x \in Range(crsp) :
        \E c \in Range(compustat) : /\ c.gvkey = f.gvkey
                                     /\ ToMonth(c.datadate) + lag = f.date
                                     /\ x.gvkey = c.gvkey
                                     /\ x.date = ToMonth(c.datadate)}}

\* log_mktcap of the row before position j of the filled frame when that row
\* is of the same security
CarriedLogCap(j) ==
    IF j > 1 /\ data_fama_macbeth[j - 1].permno = data_fama_macbeth[j].permno
    THEN data_fama_macbeth[j - 1].log_mktcap ELSE NaN

\* C30: log_mktcap of a row is the log of a market cap joined to a fundamentals
\* record at its fiscal month when such a record becomes effective at the
\* row's month, and otherwise the log_mktcap of the security's previous row;
\* rows before the first update have none and are not in the assembled panel
C30_LogMarketCapOfFundamentals ==
    pc = "prepared" =>
        /\ \A j \in DOMAIN data_fama_macbeth :
               LET f == data_fama_macbeth[j]
               IN  \/ f.log_mktcap = CarriedLogCap(j)
                   \/ /\ NotNull(f.sorting_date)
                      /\ \E cap \in JoinedCaps(f) : f.log_mktcap = Log(cap[1], 1)
        /\ \A j \in DOMAIN data_fama_macbeth :
               LET f == data_fama_macbeth[j]
               IN  (\A k \in 1..j : data_fama_macbeth[k].permno = f.permno =>
                                        IsNull(data_fama_macbeth[k].sorting_date)) =>
                       /\ IsNull(f.log_mktcap)
                       /\ \A i \in DOMAIN data :
                              ~(data[i].permno = f.permno /\ data[i].date = f.date)
        /\ \A i \in DOMAIN data :
               \E f \in Range(data_fama_macbeth) :
                   /\ f.permno = data[i].permno /\ f.date = data[i].date
                   /\ f.log_mktcap = data[i].log_mktcap

\* C30 witness: an assembled row two months after the update still carries the
\* log of the market cap of the fiscal month, not of its own market cap, and
\* an earlier row of the security, before the update, is undefined
C30_Witness ==
    /\ pc = "prepared"
    /\ lag >= 1
    /\ \E i \in DOMAIN data :
           /\ data[i].log_mktcap # Log(data[i].mktcap[1], 1)
           /\ \E u \in Range(data_fama_macbeth) :
                  /\ u.permno = data[i].permno
                  /\ NotNull(u.sorting_date)
                  /\ u.date + 2 = data[i].date
                  /\ u.log_mktcap = data[i].log_mktcap
                  /\ u.log_mktcap = Log(2 * (u.date - lag) + u.permno, 1)
           /\ \E e \in Range(data_fama_macbeth) :
                  /\ e.permno = data[i].permno
                  /\ e.date < data[i].date
                  /\ IsNull(e.log_mktcap)

-----------------------------------------------------------------------------
(* Panel assembly under reordered input tables                              *)

\* a sequence back to front
Reverse(s) == [k \in DOMAIN s |-> s[Len(s) + 1 - k]]

\* table "crsp" with the rows of security first ahead of the others, the months
\* of every security running backwards when descending
ReorderedCrsp(table, first, descending) ==
    LET block(p) == IF descending THEN Reverse(GroupOf(table, p)) ELSE GroupOf(table, p)
    IN  block(first) \o block(3 - first)

\* the tables in one fixed order: "crsp" by (permno, date), "compustat" by
\* datadate and gvkey
CanonicalCrsp == SortValues(crsp, <<"permno", "date">>)

CanonicalCompustat ==
    [k \in DOMAIN compustat |->
        CHOOSE c \in Range(compustat) :
            Cardinality({o \in Range(compustat) : RecordRank(o) < RecordRank(c)}) = k - 1]

\* the frame prepare_data leaves in self.data for given tables
AssembledPanel(compustat_data, crsp_data, month_lag) ==
    SelectAndDropNa(AttachLead(FillForward(
        MergeCharacteristics(crsp_data,
                             Characteristics(compustat_data, crsp_data, month_lag)))))

InitReorder ==
    \E g \in LinkPatterns, miss1 \in 0..MaxMonthAsm, shape \in {"plain", "late"},
       month_lag \in 0..MaxLag, table \in CompustatTables,
       first \in {1, 2}, descending \in BOOLEAN, backwards \in BOOLEAN :
        /\ crsp = ReorderedCrsp(CrspTable(g[1], g[2], miss1, shape), first, descending)
        /\ compustat = IF backwards THEN Reverse(table) ELSE table
        /\ lag = month_lag
        /\ pc = "constructed"
        /\ df = <<>>
        /\ factors = <<>>
        /\ thresholds = NoThresholds
        /\ links = <<>>
        /\ characteristics = <<>>
        /\ data_fama_macbeth = <<>>
        /\ data = <<>>
        /\ NoFundamentals /\ NoFetch /\ NoCall /\ NoOther

NextReorder == PrepareData

SpecReorder == InitReorder /\ [][NextReorder]_vars

\* C18: the assembled panel is the same set of rows, with the same values,
\* as the panel assembled from the same tables in their fixed order
C18_OrderIndependent ==
    pc = "prepared" =>
        Range(data) = Range(AssembledPanel(CanonicalCompustat, CanonicalCrsp, lag))

-----------------------------------------------------------------------------
(* Exchange and industry classification: inputs and properties             *)

\* primary exchange codes: the three named ones, another upper-case code, a
\* lower-case code and a missing value
ExchangeCodes == {"N", "A", "Q", "X", "n", NaN}

\* the industry ranges of the documentation of change_crsp_industry_codes
SectorRanges ==
    {<<"Agriculture", 1, 999>>, <<"Mining", 1000, 1499>>,
     <<"Construction", 1500, 1799>>, <<"Manufacturing", 2000, 3999>>,
     <<"Transportation", 4000, 4899>>, <<"Utilities", 4900, 4999>>,
     <<"Wholesale", 5000, 5199>>, <<"Retail", 5200, 5999>>,
     <<"Finance", 6000, 6799>>, <<"Services", 7000, 8999>>,
     <<"Public", 9000, 9999>>}

\* SIC codes (dtype int): both ends of every range, their outer neighbours,
\* an inner code of every range, zero and a negative code
SicCodes ==
    UNION {{s[2] - 1, s[2], (s[2] + s[3]) \div 2, s[3], s[3] + 1} : s \in SectorRanges}
    \cup {-1, 0}

\* the fetched frame: a row with any codes after a manufacturing row of NYSE
InitClassify ==
    \E ex \in ExchangeCodes, code \in SicCodes :
        /\ df = <<[permno |-> 2, date |-> 1, primaryexch |-> "N", siccd |-> 2500],
                  [permno |-> 1, date |-> 1, primaryexch |-> ex, siccd |-> code]>>
        /\ pc = "fetched"
        /\ factors = <<>>
        /\ thresholds = NoThresholds
        /\ links = <<>>
        /\ crsp = <<>>
        /\ compustat = <<>>
        /\ lag = 0
        /\ characteristics = <<>>
        /\ data_fama_macbeth = <<>>
        /\ data = <<>>
        /\ NoFundamentals /\ NoFetch /\ NoCall /\ NoOther

NextClassify == ChangeCrspExchangeCodes \/ ChangeCrspIndustryCodes

SpecClassify == InitClassify /\ [][NextClassify]_vars

\* the sectors whose inclusive range holds the code
SectorsOf(siccd) == {s[1] : s \in {x \in SectorRanges : x[2] <= siccd /\ siccd <= x[3]}}

\* C23: every row gets an exchange (N, A, Q named, anything else Other) and an
\* industry: the one sector whose inclusive range holds its code, and Missing
\* for a code in no range (0, negative, 1800-1999, 6800-6999, above 9999)
C23_ClassificationTotal ==
    /\ pc \in {"exchange", "industry"} =>
           \A r \in Range(df) :
               r.exchange = (CASE r.primaryexch = "N" -> "NYSE"
                               [] r.primaryexch = "A" -> "AMEX"
                               [] r.primaryexch = "Q" -> "NASDAQ"
                               [] OTHER -> "Other")
    /\ pc = "industry" =>
           \A r \in Range(df) :
               /\ Cardinality(SectorsOf(r.siccd)) <= 1
               /\ IF SectorsOf(r.siccd) = {} THEN r.industry = "Missing"
                  ELSE r.industry \in SectorsOf(r.siccd)
               /\ (\/ r.siccd <= 0
                   \/ r.siccd \in 1800..1999
                   \/ r.siccd \in 6800..6999
                   \/ r.siccd > 9999) <=> r.industry = "Missing"

\* C23 witness: a row with code 1799, the last of Construction, on an exchange
\* with an unnamed code, next to the manufacturing row of NYSE
C23_Witness ==
    /\ pc = "industry"
    /\ \E r, m \in Range(df) :
           /\ r.siccd = 1799
           /\ r.industry = "Construction"
           /\ r.primaryexch = "n"
           /\ r.exchange = "Other"
           /\ m.industry = "Manufacturing"
           /\ m.exchange = "NYSE"

-----------------------------------------------------------------------------
(* FamaMacbeth filters: inputs and properties                              *)

\* drop_tail_percentile in hundredths: not given, 0, below, at and above 0.25
Float(hundredths) == [type |-> "float", value |-> hundredths]

Str(name) == [type |-> "str", value |-> name]

Percentiles == {None, Float(0), Float(10), Float(24), Float(25), Float(50)}

SizeChoices == {None, Str("Large"), Str("Small"), Str("Micro")}

\* table "crsp" with security 1 classified Large and security 2 Small;
\* security 1 misses month miss1 and security 2 month miss2
SizedCrspTable(g1, g2, miss1, miss2) ==
    LET table == SelectSeq(CrspTable(g1, g2, miss1, "plain"),
                           LAMBDA r : ~(r.permno = 2 /\ r.date = miss2))
    IN  [i \in DOMAIN table |->
            [table[i] EXCEPT !.size_category =
                                 IF table[i].permno = 1 THEN <<"Large">> ELSE <<"Small">>]]

\* a database with a full record of fiscal month 1 per entity, and the
\* arguments of the constructor
InitFilter ==
    \E g \in LinkPatterns, miss1 \in 0..MaxMonthAsm, miss2 \in 0..MaxMonthAsm,
       month_lag \in 0..MaxLag, q \in Percentiles, size \in SizeChoices :
        /\ crsp = SizedCrspTable(g[1], g[2], miss1, miss2)
        /\ compustat = <<CompustatRecord("g1", 1, "full"),
                         CompustatRecord("g2", 1, "full")>>
        /\ call = [entry |-> "FamaMacbeth", compustat_month_lag |-> month_lag,
                   drop_tail_percentile |-> q, desired_size |-> size]
        /\ outcome = None
        /\ lag = 0
        /\ pc = "call"
        /\ df = <<>>
        /\ factors = <<>>
        /\ thresholds = NoThresholds
        /\ links = <<>>
        /\ characteristics = <<>>
        /\ data_fama_macbeth = <<>>
        /\ data = <<>>
        /\ NoFundamentals /\ NoFetch /\ NoOther

NextFilter == FamaMacbethInit \/ PrepareData

SpecFilter == InitFilter /\ [][NextFilter]_vars

\* the panel before the two filters
Unfiltered == SelectAndDropNa(AttachLead(data_fama_macbeth))

\* number of rows of a panel at month d
RowsAt(panel, d) == Cardinality({i \in DOMAIN panel : panel[i].date = d})

\* the row counts of the months that have a row, in month order
PeriodCounts(panel) ==
    LET months == SetToSeq({r.date : r \in Range(panel)})
    IN  [k \in DOMAIN months |-> RowsAt(panel, months[k])]

\* C22: construction fails exactly when drop_tail_percentile is given and is
\* 0.25 or more; prepare_data then keeps, in order, exactly the rows of the
\* months whose row count is at least the drop_tail_percentile quantile of
\* the per-month row counts (all rows when it is None) and, when desired_size
\* is given, only those of that size category
C22_TailAndSizeFilters ==
    /\ pc # "call" =>
           (pc = "raised" <=> /\ call.drop_tail_percentile # None
                              /\ call.drop_tail_percentile.value >= 25)
    /\ pc = "prepared" =>
           \A panel \in {Unfiltered} :
               \A quantile \in {IF call.drop_tail_percentile = None THEN NaN
                                 ELSE Quantile100(PeriodCounts(panel),
                                                  call.drop_tail_percentile.value)} :
                   data = SelectSeq(panel, LAMBDA r :
                              /\ call.drop_tail_percentile # None =>
                                     /\ NotNull(quantile)
                                     /\ 100 * RowsAt(panel, r.date) >= quantile[1]
                              /\ call.desired_size # None =>
                                     r.size_category = <<call.desired_size.value>>)

\* C22 witness: with drop_tail_percentile 0.10 and desired_size Large, a Large
\* row is kept, a Large row of a thin month is dropped and so is a Small row
\* of a month that passes
C22_Witness ==
    /\ pc = "prepared"
    /\ drop_tail_percentile = Float(10)
    /\ desired_size = Str("Large")
    /\ data # <<>>
    /\ \E r \in Range(Unfiltered) :
           /\ r.size_category = <<"Large">>
           /\ \A i \in DOMAIN data : data[i].date # r.date
    /\ \E r \in Range(Unfiltered) :
           /\ r.size_category = <<"Small">>
           /\ \E i \in DOMAIN data : data[i].date = r.date

-----------------------------------------------------------------------------
(* Batched download of the daily data: inputs and properties               *)

NumSecBatch == 3

MaxBatch == 4

MaxDaysBatch == 31

\* daily rows in fetch order (by day, then security); security 2 has no
\* return at all under "noret" and trades on the last two days only under
\* "late"; under "twice" its row of day 3 comes twice, with two returns
DailyRowsBatch(kind) ==
    Concat([d \in 1..MaxDaysBatch |->
        Concat([p \in 1..NumSecBatch |->
            IF p = 2 /\ kind = "late" /\ d < MaxDaysBatch - 1 THEN <<>>
            ELSE <<[permno |-> p, date |-> d,
                    ret |-> IF p = 2 /\ kind = "noret" THEN NaN
                            ELSE <<(p * d) % 3>>]>>
                 \o (IF p = 2 /\ kind = "twice" /\ d = 3
                     THEN <<[permno |-> p, date |-> d, ret |-> <<5>>]>> ELSE <<>>)])])

\* the panel as create_momentum_column leaves it
PanelBatch ==
    Concat([p \in 1..NumSecBatch |->
        [m \in 1..((MaxDaysBatch - 1) \div DaysPerMonth + 1) |->
            [Row(p, m, "NYSE", <<0>>, <<1>>) EXCEPT !.ret_excess = <<0>>]]])

InitBatch ==
    \E size \in 1..MaxBatch, kind \in {"plain", "noret", "late", "twice", "empty"} :
        /\ call = [entry |-> "CRSP.create_volatility_column", batch_size |-> size]
        /\ outcome = None
        /\ dsf = IF kind = "empty" THEN <<>> ELSE DailyRowsBatch(kind)
        /\ factors_daily = [d \in 1..MaxDaysBatch |-> <<0>>]
        /\ df = PanelBatch
        /\ factors = <<>>
        /\ pc = "momentum"
        /\ msf = <<>>
        /\ df_daily = <<>>
        /\ thresholds = NoThresholds
        /\ links = <<>>
        /\ crsp = <<>>
        /\ compustat = <<>>
        /\ lag = 0
        /\ characteristics = <<>>
        /\ data_fama_macbeth = <<>>
        /\ data = <<>>
        /\ NoFundamentals /\ NoOther

NextBatch == StartDailyBatches \/ FetchDailyBatch \/ ConcatAndComputeVolatility

SpecBatch == InitBatch /\ [][NextBatch]_vars

\* the batches (as sets of list positions) of a permno list of length n
BatchPositions(j) ==
    {k \in DOMAIN batching.permnos :
        \E i \in DOMAIN PermnoBatch(batching.permnos, batching.batch_size, j) :
            /\ k = (j - 1) * batching.batch_size + i
            /\ PermnoBatch(batching.permnos, batching.batch_size, j)[i]
                   = batching.permnos[k]}

\* the daily table of a download in one batch
SingleBatchDaily ==
    ComputeVol(SortValues(DailyBatch(SetToSeq({r.permno : r \in Range(dsf) \cup
                                                                Range(PanelBatch)})),
                          <<"permno", "date">>))

\* C26: for every batch size and every order of fetching, the batches
\* partition the permno list (every position in exactly one batch, no batch
\* longer than the size, ceil(n / size) batches), and the sorted daily
\* volatility table and the merged panel are those of a single batch
C26_BatchingRefinesSingleBatch ==
    /\ pc = "batching" =>
           LET n == Len(batching.permnos)
               size == batching.batch_size
           IN  /\ \A k \in 1..n :
                      Cardinality({j \in 1..batching.batches :
                                      k \in BatchPositions(j)}) = 1
               /\ \A j \in 1..batching.batches :
                      /\ Cardinality(BatchPositions(j)) <= size
                      /\ Len(PermnoBatch(batching.permnos, size, j)) <= size
                      /\ Len(PermnoBatch(batching.permnos, size, j))
                             = Cardinality(BatchPositions(j))
               /\ batching.batches * size >= n
               /\ (batching.batches - 1) * size < n
    /\ pc = "volatility" =>
           \A single \in {SingleBatchDaily} :
               /\ df_daily = single
               /\ df = Concat([i \in DOMAIN PanelBatch |->
                                  MergeVolatility(PanelBatch[i], single)])
    /\ pc = "error" => dsf = <<>> \/ \A r \in Range(dsf) : IsNull(r.ret)

\* C26 witness: three batches of one permno fetched in descending order, the
\* empty one skipped, give a table with defined volatilities that reach the
\* panel
C26_Witness ==
    /\ pc = "volatility"
    /\ batching.batch_size = 1
    /\ batching.batches = NumSecBatch
    /\ Len(batching.df_list) = NumSecBatch - 1
    /\ batching.df_list[1][1].permno = NumSecBatch
    /\ batching.df_list[2][1].permno = 1
    /\ \E r \in Range(df) : r.permno = 1 /\ r.date = 2 /\ NotNull(r.volatility)
    /\ \E r \in Range(df) : r.permno = NumSecBatch /\ NotNull(r.volatility)

-----------------------------------------------------------------------------
(* Dataset objects, the sqlite database and the HTTPS context.  A frame is  *)
(* held with its rows; the rows a source yields at a call are told apart by *)
(* the number of the call.                                                  *)

MaxCalls == 4

Frame(rows) == [type |-> "DataFrame", rows |-> rows]

\* what a source yields for the requested range: no row, or rows
Fetched(k) == {Frame(<<>>), Frame(<<[id |-> k]>>)}

\* what a finished call leaves behind
CallOutcome(name, w, error) == [call |-> name, writer |-> w, error |-> error]

\* calls under way inside QFactors.set_data or MacroPredictors.set_data
InProgress == {c \in Downloaders : fetches[c] # "idle"}

\* set_data of Compustat, CRSP and CPI as the database sees it: df becomes
\* the frame built from what the source yields, or the call raises (a failed
\* query, an invalid date) and df is what the steps before the failure left
SetData(w) ==
    /\ calls + Cardinality(InProgress) < MaxCalls
    /\ calls' = calls + 1
    /\ \/ \E f \in Fetched(calls + 1) :
              /\ frames' = [frames EXCEPT ![w] = f]
              /\ outcome' = CallOutcome("set_data", w, NaN)
       \/ \E f \in {frames[w]} \cup Fetched(calls + 1) :
              /\ frames' = [frames EXCEPT ![w] = f]
              /\ outcome' = CallOutcome("set_data", w, <<Raised("Exception", "fetch", w)>>)
    /\ UNCHANGED <<pc, call, tables, panelVars, assembleVars, compustatVars,
                   fetchVars, filterVars, httpsVars, batching>>

\* set_data of QFactors / MacroPredictors, first statement: the process-wide
\* default HTTPS context is replaced by the unverified one
SwitchContext(c) ==
    /\ fetches[c] = "idle"
    /\ calls + Cardinality(InProgress) < MaxCalls
    /\ https_context' = "_create_unverified_context"
    /\ fetches' = [fetches EXCEPT ![c] = "switched"]
    /\ UNCHANGED <<pc, call, outcome, tables, frames, calls, panelVars,
                   assembleVars, compustatVars, fetchVars, filterVars, batching>>

\* pd.read_csv and the date filter: df is set, or the download raises and the
\* call ends there, the statement that restores the context not being reached
ReadCsv(c) ==
    /\ fetches[c] = "switched"
    /\ \/ \E f \in Fetched(calls + 1) :
              /\ frames' = [frames EXCEPT ![c] = f]
              /\ fetches' = [fetches EXCEPT ![c] = "read"]
              /\ UNCHANGED <<calls, outcome>>
       \/ /\ fetches' = [fetches EXCEPT ![c] = "idle"]
          /\ calls' = calls + 1
          /\ outcome' = CallOutcome("set_data", c, <<Raised("URLError", "fetch", c)>>)
          /\ UNCHANGED frames
    /\ UNCHANGED <<pc, call, tables, https_context, panelVars, assembleVars,
                   compustatVars, fetchVars, filterVars, batching>>

\* last statement of set_data:
\* ssl._create_default_https_context = ssl.create_default_context
RestoreContext(c) ==
    /\ fetches[c] = "read"
    /\ https_context' = "create_default_context"
    /\ fetches' = [fetches EXCEPT ![c] = "idle"]
    /\ calls' = calls + 1
    /\ outcome' = CallOutcome("set_data", c, NaN)
    /\ UNCHANGED <<pc, call, tables, frames, panelVars, assembleVars,
                   compustatVars, fetchVars, filterVars, batching>>

\* write_to_sql with the table replaced by the old rows followed by the new
WriteToSqlAppend(w) ==
    /\ calls + Cardinality(InProgress) < MaxCalls
    /\ calls' = calls + 1
    /\ IF frames[w] = None \/ frames[w].rows = <<>>
       THEN /\ outcome' = CallOutcome("write_to_sql", w,
                                      <<Raised("ValueError", "no data", w)>>)
            /\ UNCHANGED tables
       ELSE /\ tables' = [tables EXCEPT
                             ![w] = IF tables[w] = None THEN frames[w]
                                    ELSE Frame(tables[w].rows \o frames[w].rows)]
            /\ outcome' = CallOutcome("write_to_sql", w, NaN)
    /\ UNCHANGED <<pc, call, frames, panelVars, assembleVars, compustatVars,
                   fetchVars, filterVars, httpsVars, batching>>

\* write_to_sql of Compustat, CPI, QFactors and MacroPredictors: ValueError
\* when df is None or empty, else to_sql(name, if_exists="replace")
WriteToSql(w) ==
    /\ calls + Cardinality(InProgress) < MaxCalls
    /\ calls' = calls + 1
    /\ IF frames[w] = None \/ frames[w].rows = <<>>
       THEN /\ outcome' = CallOutcome("write_to_sql", w,
                                      <<Raised("ValueError", "no data", w)>>)
            /\ UNCHANGED tables
       ELSE /\ tables' = [tables EXCEPT ![w] = frames[w]]
            /\ outcome' = CallOutcome("write_to_sql", w, NaN)
    /\ UNCHANGED <<pc, call, frames, panelVars, assembleVars, compustatVars,
                   fetchVars, filterVars, httpsVars, batching>>

\* CRSP.write_to_sql: self.df.to_sql(name="crsp", if_exists="replace") with no
\* test of df; None has no attribute to_sql
CrspWriteToSql ==
    /\ calls + Cardinality(InProgress) < MaxCalls
    /\ calls' = calls + 1
    /\ IF frames["crsp"] = None
       THEN /\ outcome' = CallOutcome("write_to_sql", "crsp",
                                      <<Raised("AttributeError", "to_sql", "crsp")>>)
            /\ UNCHANGED tables
       ELSE /\ tables' = [tables EXCEPT !["crsp"] = frames["crsp"]]
            /\ outcome' = CallOutcome("write_to_sql", "crsp", NaN)
    /\ UNCHANGED <<pc, call, frames, panelVars, assembleVars, compustatVars,
                   fetchVars, filterVars, httpsVars, batching>>

\* run of _main.py: the database is opened and ff_3_m.set_data is called, a
\* method the class FamaFrench does not have; no later step is reached
Run ==
    /\ calls + Cardinality(InProgress) < MaxCalls
    /\ calls' = calls + 1
    /\ outcome' = CallOutcome("run", "fama_french",
                              <<Raised("AttributeError", "set_data", "FamaFrench")>>)
    /\ UNCHANGED <<pc, call, tables, frames, panelVars, assembleVars,
                   compustatVars, fetchVars, filterVars, httpsVars, batching>>

\* fresh dataset objects and a database without tables
InitStore ==
    /\ pc = "session"
    /\ df = None
    /\ factors = <<>>
    /\ thresholds = NoThresholds
    /\ links = <<>>
    /\ crsp = <<>>
    /\ compustat = <<>>
    /\ lag = 0
    /\ characteristics = <<>>
    /\ data_fama_macbeth = <<>>
    /\ data = <<>>
    /\ NoFundamentals /\ NoFetch /\ NoCall /\ NoOther

NextStore ==
    \/ \E w \in Writers \ Downloaders : SetData(w)
    \/ \E c \in Downloaders : SwitchContext(c) \/ ReadCsv(c) \/ RestoreContext(c)
    \/ \E w \in Writers \ {"crsp"} : WriteToSql(w)
    \/ CrspWriteToSql
    \/ Run

SpecStore == InitStore /\ [][NextStore]_vars

\* the step is a finished write_to_sql of writer w
WriteStep(w) ==
    /\ calls' = calls + 1
    /\ outcome'.call = "write_to_sql"
    /\ outcome'.writer = w

NoDataError(w) == <<Raised("ValueError", "no data", w)>>

\* C21: write_to_sql of every dataset writer, called while df is unset or
\* empty, fails with the no-data error and leaves the stored tables as they
\* are, so that no empty table is ever written
C21_NoDataWriteRefused ==
    [][\A w \in Writers :
          (WriteStep(w) /\ (frames[w] = None \/ frames[w].rows = <<>>)) =>
              /\ outcome'.error = NoDataError(w)
              /\ tables' = tables]_vars

C29_VerifyingContextWhenIdle ==
    InProgress = {} <=> https_context = "create_default_context"

====
